---- MODULE Spec2Model ----
(***************************************************************************)
(* Internal-linking suggestion tool: the orchestration pipeline            *)
(* (src/src/link_finder.py), the search client it drives                   *)
(* (src/src/dataforseo_client.py), the anchor extractor's post-processing  *)
(* (src/src/gemini_extractor.py), the page fetcher's contract              *)
(* (src/src/scraper.py) and the URL utilities (src/src/utils.py).          *)
(*                                                                         *)
(* Strings are modelled as sequences of tokens: a token is either one of   *)
(* the delimiters ":", "/", "?", "#", "." or a maximal run of other        *)
(* characters ("https", "www", "Example", "p").  Every string operation    *)
(* the code performs (lower, startswith, rstrip, split, urlparse,          *)
(* urlunparse) acts on whole tokens, so it is modelled on the tokens.      *)
(***************************************************************************)
EXTENDS Integers, Sequences, FiniteSets, TLC

(***************************************************************************)
(* Program constants (src/src/config.py).                                  *)
(***************************************************************************)
MAX_KEYWORDS_Eleven == 10 + 1
MAX_KEYWORDS == 10
MAX_TARGET_URLS_PER_KEYWORD == 3
MAX_RETRIES == 3
BASE_RETRY_DELAY == 1
MAX_RETRY_DELAY == 60
SEARCH_DEPTH == 10
STATUS_OK == 20000

(***************************************************************************)
(* Generic sequence helpers (Python slicing and searching).  An operator   *)
(* that reads a sequence argument many times first binds it to its value   *)
(* (x \in {arg}), so that the argument is evaluated once.                  *)
(***************************************************************************)
Min(a, b) == IF a <= b THEN a ELSE b
Max(a, b) == IF a >= b THEN a ELSE b

\* s[:n]
Take(s, n) == SubSeq(s, 1, Min(n, Len(s)))

\* s[n:]  (n is the number of leading elements dropped)
Drop(s, n) == SubSeq(s, n + 1, Len(s))

\* index of the first element of s that is in set D, or 0
FirstIn(s, D) ==
    CHOOSE r \in
      { IF \E k \in 1..Len(x) : x[k] \in D
        THEN CHOOSE k \in 1..Len(x) : x[k] \in D /\ \A j \in 1..(k - 1) : x[j] \notin D
        ELSE 0 : x \in {s} } : TRUE

\* index of the last element of s that is not c, or 0
LastNot(s, c) ==
    CHOOSE r \in
      { IF \E k \in 1..Len(x) : x[k] # c
        THEN CHOOSE k \in 1..Len(x) : x[k] # c /\ \A j \in (k + 1)..Len(x) : x[j] = c
        ELSE 0 : x \in {s} } : TRUE

\* s.startswith(p)
StartsWith(s, p) == Len(s) >= Len(p) /\ SubSeq(s, 1, Len(p)) = p

\* s.rstrip(c): drop every trailing token c
RStrip(s, c) == CHOOSE r \in {SubSeq(x, 1, LastNot(x, c)) : x \in {s}} : TRUE

\* s.lstrip(c): drop every leading token c
LStrip(s, c) ==
    CHOOSE r \in
      { IF \E k \in 1..Len(x) : x[k] # c
        THEN Drop(x, FirstIn(x, {t \in {x[k] : k \in 1..Len(x)} : t # c}) - 1)
        ELSE <<>> : x \in {s} } : TRUE

\* the positions of the separator c in s, and the j-th of them
SepsOf(s, c) == {k \in 1..Len(s) : s[k] = c}
NthOf(P, j) == CHOOSE k \in P : Cardinality({m \in P : m < k}) = j - 1

\* s.split(c): the list of the pieces between the separators
Split(s, c) ==
    CHOOSE r \in
      { [j \in 1..(Cardinality(P) + 1) |->
           SubSeq(x, IF j = 1 THEN 1 ELSE NthOf(P, j - 1) + 1,
                     IF j = Cardinality(P) + 1 THEN Len(x) ELSE NthOf(P, j) - 1)]
        : P \in {SepsOf(x, c) : x \in {s}}, x \in {s} } : TRUE

\* c.join(parts)
RECURSIVE JoinParts(_, _)
JoinParts(parts, c) ==
    IF Len(parts) = 0 THEN <<>>
    ELSE IF Len(parts) = 1 THEN parts[1]
    ELSE parts[1] \o <<c>> \o JoinParts(Tail(parts), c)
Join(parts, c) == CHOOSE r \in {JoinParts(x, c) : x \in {parts}} : TRUE

(***************************************************************************)
(* str.lower(), token by token.                                            *)
(***************************************************************************)
LowerTok(t) ==
    CASE t = "HTTP" -> "http"
      [] t = "HTTPS" -> "https"
      [] t = "WWW" -> "www"
      [] t = "D" -> "d"
      [] t = "Blog" -> "blog"
      [] t = "COM" -> "com"
      [] t = "P" -> "p"
      [] t = "Example" -> "example"
      [] t = "Page" -> "page"
      [] OTHER -> t

Lower(s) == CHOOSE r \in {[k \in 1..Len(x) |-> LowerTok(x[k])] : x \in {s}} : TRUE

(***************************************************************************)
(* urllib.parse.urlparse / urlunparse, as called by utils.py.  urlparse    *)
(* cuts the scheme, then the netloc, then the fragment, then the query.    *)
(***************************************************************************)
Delims == {":", "/", "?", "#", "."}

\* a token made of scheme characters only (letters, digits, "+", "-", ".")
SchemeTok(t) == t \notin {":", "/", "?", "#"}

\* url[:i] is a scheme when i > 0, url[0] is a letter and url[:i] has scheme
\* characters only; the scheme is lowercased
CutScheme(url) ==
    CHOOSE r \in
      { IF /\ c > 1
           /\ x[1] \notin Delims
           /\ \A k \in 1..(c - 1) : SchemeTok(x[k])
        THEN [scheme |-> Lower(SubSeq(x, 1, c - 1)), rest |-> Drop(x, c)]
        ELSE [scheme |-> <<>>, rest |-> x]
        : c \in {FirstIn(x, {":"}) : x \in {url}}, x \in {url} } : TRUE

\* if url[:2] == '//': the netloc runs up to the first of "/", "?", "#"
CutNetloc(rest) ==
    CHOOSE r \in
      { IF ~StartsWith(x, <<"/", "/">>) THEN [netloc |-> <<>>, rest |-> x]
        ELSE IF e = 0 THEN [netloc |-> Drop(x, 2), rest |-> <<>>]
        ELSE [netloc |-> SubSeq(x, 3, e + 1), rest |-> Drop(x, e + 1)]
        : e \in {FirstIn(Drop(x, 2), {"/", "?", "#"}) : x \in {rest}}, x \in {rest} } : TRUE

\* if '#' in url: url, fragment = url.split('#', 1)
CutFragment(rest) ==
    CHOOSE r \in
      { IF h = 0 THEN [rest |-> x, fragment |-> <<>>]
        ELSE [rest |-> SubSeq(x, 1, h - 1), fragment |-> Drop(x, h)]
        : h \in {FirstIn(x, {"#"}) : x \in {rest}}, x \in {rest} } : TRUE

\* if '?' in url: url, query = url.split('?', 1)
CutQuery(rest) ==
    CHOOSE r \in
      { IF q = 0 THEN [path |-> x, query |-> <<>>]
        ELSE [path |-> SubSeq(x, 1, q - 1), query |-> Drop(x, q)]
        : q \in {FirstIn(x, {"?"}) : x \in {rest}}, x \in {rest} } : TRUE

\* urlparse(url): scheme, netloc, path, query, fragment
Urlparse(url) ==
    LET a == CutScheme(url)
        b == CutNetloc(a.rest)
        f == CutFragment(b.rest)
        q == CutQuery(f.rest)
    IN [scheme |-> a.scheme, netloc |-> b.netloc, path |-> q.path,
        query |-> q.query, fragment |-> f.fragment]

\* the schemes urllib lists in uses_netloc that the tool can meet
UsesNetloc == {<<"http">>, <<"https">>, <<"ftp">>}

\* urlunparse((scheme, netloc, path, '', query, fragment))
Urlunparse(scheme, netloc, path, query, fragment) ==
    LET u1 == IF \/ netloc # <<>>
                 \/ (scheme # <<>> /\ scheme \in UsesNetloc
                       /\ ~StartsWith(path, <<"/", "/">>))
              THEN <<"/", "/">> \o netloc
                     \o (IF path # <<>> /\ path[1] # "/" THEN <<"/">> \o path ELSE path)
              ELSE path
        u2 == IF scheme # <<>> THEN scheme \o <<":">> \o u1 ELSE u1
        u3 == IF query # <<>> THEN u2 \o <<"?">> \o query ELSE u2
    IN IF fragment # <<>> THEN u3 \o <<"#">> \o fragment ELSE u3

(***************************************************************************)
(* src/src/utils.py                                                        *)
(***************************************************************************)
two_part_tlds ==
    { <<"co", ".", "uk">>, <<"co", ".", "il">>, <<"co", ".", "jp">>, <<"co", ".", "kr">>,
      <<"co", ".", "nz">>, <<"co", ".", "za">>, <<"co", ".", "in">>,
      <<"com", ".", "au">>, <<"com", ".", "br">>, <<"com", ".", "cn">>,
      <<"com", ".", "mx">>, <<"com", ".", "sg">>, <<"com", ".", "tw">>,
      <<"org", ".", "uk">>, <<"org", ".", "au">>, <<"net", ".", "au">>,
      <<"ac", ".", "uk">>, <<"ac", ".", "il">> }

\* domain[4:] if domain.startswith('www.')
StripWww(netloc) ==
    CHOOSE r \in
      { IF StartsWith(x, <<"www", ".">>) THEN Drop(x, 2) ELSE x : x \in {netloc} } : TRUE

\* the root domain of a host that is split into its labels
RootOf_LastTwo(domain, parts) ==
    LET n == Len(parts)
    IN IF n >= 3 THEN Join(SubSeq(parts, n - 1, n), ".") ELSE domain
RootOf(domain, parts) ==
    LET n == Len(parts)
    IN IF n >= 3
       THEN IF Join(SubSeq(parts, n - 1, n), ".") \in two_part_tlds
            THEN Join(SubSeq(parts, n - 2, n), ".")
            ELSE Join(SubSeq(parts, n - 1, n), ".")
       ELSE domain

extract_domain(url) ==
    CHOOSE r \in
      { RootOf(domain, Split(domain, "."))
        : domain \in {StripWww(Lower(Urlparse(url).netloc))} } : TRUE

normalize_url(url) ==
    CHOOSE r \in
      { Urlunparse(<<"https">>, StripWww(parsed.netloc), RStrip(parsed.path, "/"),
                   parsed.query, <<>>)
        : parsed \in {Urlparse(Lower(url))} } : TRUE

validate_url_NoDot(url) ==
    \E result \in {Urlparse(url)} :
       /\ result.scheme \in {<<"http">>, <<"https">>}
       /\ result.netloc # <<>>
validate_url(url) ==
    \E result \in {Urlparse(url)} :
       /\ result.scheme \in {<<"http">>, <<"https">>}
       /\ result.netloc # <<>>
       /\ \E k \in 1..Len(result.netloc) : result.netloc[k] = "."

(***************************************************************************)
(* Bounds of the model.                                                    *)
(***************************************************************************)
\* length of the long JSON array the language model answers with (more than
\* MAX_KEYWORDS items, although it is asked for MAX_KEYWORDS)
MaxRaw == 11
\* longest of the short JSON arrays the language model answers with
MaxShortRaw == 3
\* searches of one run that the search API answers with anything but an
\* empty result page on the first attempt
MaxEventful == 2

(***************************************************************************)
(* Inputs: source URLs handed to find_opportunities.                       *)
(***************************************************************************)
SrcPage == <<"http", ":", "/", "/", "WWW", ".", "Blog", ".", "D", ".", "co", ".", "uk",
             "/", "P", "/">>
SrcFtp == <<"ftp", ":", "/", "/", "d", ".", "co", ".", "uk", "/", "p">>
SrcNoDot == <<"https", ":", "/", "/", "localhost", "/", "p">>
SrcNoScheme == <<"www", ".", "d", ".", "co", ".", "uk", "/", "p">>
SourceUrls == {SrcPage, SrcFtp, SrcNoDot, SrcNoScheme}

(***************************************************************************)
(* Inputs: pages of the search API.  UrlSelfA, UrlSelfB and UrlSelfC are   *)
(* spellings of SrcPage (they normalize to the same string); the others    *)
(* are other pages of the site.                                            *)
(***************************************************************************)
Site(host, rest) == <<"https", ":", "/", "/">> \o host \o <<"d", ".", "co", ".", "uk">> \o rest
UrlSelfA == Site(<<"blog", ".">>, <<"/", "p">>)
UrlSelfB == Site(<<"www", ".", "blog", ".">>, <<"/", "p", "/", "#", "top">>)
UrlSelfC == <<"HTTP", ":", "/", "/", "Blog", ".", "D", ".", "co", ".", "uk", "/", "P">>
UrlA == Site(<<"blog", ".">>, <<"/", "a">>)
UrlB == Site(<<"blog", ".">>, <<"/", "b">>)
UrlC == Site(<<"shop", ".">>, <<"/", "c">>)
UrlE == Site(<<"blog", ".">>, <<"/", "e">>)
UrlParent == Site(<<>>, <<"/", "p">>)
UrlPQ == Site(<<"blog", ".">>, <<"/", "p", "?", "q">>)

Organic(url, rank) ==
    [type |-> "organic", url |-> url, title |-> <<"title", ToString(rank)>>,
     rank_absolute |-> rank, description |-> <<"snippet", ToString(rank)>>]
Paid(url, rank) ==
    [type |-> "paid", url |-> url, title |-> <<"ad">>, rank_absolute |-> rank,
     description |-> <<"ad">>]
\* an organic item without title, rank_absolute and description
Bare(url) == [type |-> "organic", url |-> url]

Task(code, items) == [status_code |-> code, result |-> <<[items |-> items]>>]

PayloadEmpty ==
    [status_code |-> STATUS_OK, status_message |-> <<"Ok.">>,
     tasks |-> <<Task(STATUS_OK, <<>>)>>]
PayloadFew ==
    [status_code |-> STATUS_OK, status_message |-> <<"Ok.">>,
     tasks |-> <<Task(STATUS_OK,
                      <<Organic(UrlSelfA, 1), Organic(UrlA, 2), Bare(UrlB)>>)>>]
\* a failed task, then a task with ads and more pages than a suggestion takes
PayloadMany ==
    [status_code |-> STATUS_OK, status_message |-> <<"Ok.">>,
     tasks |-> <<Task(40501, <<Organic(UrlE, 1)>>),
                 Task(STATUS_OK,
                      <<Organic(UrlA, 1), Organic(UrlSelfB, 2), Paid(UrlE, 3),
                        Organic(UrlPQ, 4), Organic(UrlSelfC, 5), Organic(UrlParent, 6),
                        Organic(UrlB, 7), Organic(UrlC, 8)>>)>>]
PayloadBadStatus ==
    [status_code |-> 40200, status_message |-> <<"Payment", "Required">>,
     tasks |-> <<Task(STATUS_OK, <<Organic(UrlA, 1)>>)>>]
Payloads == {PayloadEmpty, PayloadFew, PayloadMany, PayloadBadStatus}

\* what one transport attempt (session.post) can end with
Responses ==
    {[kind |-> "http", status |-> 200, data |-> P] : P \in Payloads}
    \cup {[kind |-> "http", status |-> c, data |-> PayloadEmpty] : c \in {401, 429, 500}}
    \cup {[kind |-> "exc", status |-> 0, data |-> PayloadEmpty]}

\* the uneventful answer: HTTP 200 with an empty result page
Uneventful(r) == r.kind = "http" /\ r.status = 200 /\ r.data = PayloadEmpty

(***************************************************************************)
(* Exceptions: a class name and a message.  SuperClass is the class        *)
(* hierarchy of dataforseo_client.py and of the requests library.          *)
(***************************************************************************)
Exc(type, msg) == [type |-> type, msg |-> msg]
NoExc == Exc("None", <<>>)

SuperClass(t) ==
    CASE t = "AuthenticationError" -> "APIError"
      [] t = "RateLimitError" -> "APIError"
      [] t = "ConnectionError" -> "RequestException"
      [] t = "Timeout" -> "RequestException"
      [] t = "HTTPError" -> "RequestException"
      [] OTHER -> "Exception"

\* isinstance(e, cls): cls is the class of e or one of its bases
IsInstance(e, cls) ==
    \/ e.type = cls
    \/ SuperClass(e.type) = cls
    \/ cls = "Exception"

(***************************************************************************)
(* src/src/scraper.py: scrape_page.  `fetched` is what the web answers:    *)
(* a failure of requests.get (timeout, HTTP error status, other transport  *)
(* error) or markup, of which only "has extractable text or not" matters.  *)
(***************************************************************************)
Fetches == {"timeout", "http_error", "conn_error", "empty", "ok"}

NullPage == [url |-> <<>>, domain |-> <<>>, title |-> <<>>, text |-> <<>>,
             headings |-> <<>>]

\* not text
NoText_Never(text) == FALSE
NoText(text) == text = <<>>

scrape_page(url, fetched) ==
    LET text == IF fetched = "ok" THEN <<"text">> ELSE <<>>
    IN IF fetched = "timeout"
       THEN [ok |-> FALSE, exc |-> Exc("ScrapingError", <<"Request timed out">>),
             page |-> NullPage]
       ELSE IF fetched = "http_error"
       THEN [ok |-> FALSE, exc |-> Exc("ScrapingError", <<"HTTP error">>),
             page |-> NullPage]
       ELSE IF fetched = "conn_error"
       THEN [ok |-> FALSE, exc |-> Exc("ScrapingError", <<"Failed to fetch URL">>),
             page |-> NullPage]
       ELSE IF NoText(text)
       THEN [ok |-> FALSE,
             exc |-> Exc("ScrapingError", <<"No extractable content found">>),
             page |-> NullPage]
       ELSE [ok |-> TRUE, exc |-> NoExc,
             page |-> [url |-> url, domain |-> extract_domain(url),
                       title |-> <<"title">>, text |-> text,
                       headings |-> <<<<"heading">>>>]]

(***************************************************************************)
(* src/src/gemini_extractor.py: extract_anchor_texts.  `raw` is what the   *)
(* language model call produces: an exception of the API, text without a   *)
(* JSON array, an array that is not valid JSON, or a JSON array of items.  *)
(***************************************************************************)
Get(item, key, default) == IF key \in DOMAIN item THEN item[key] ELSE default

\* str.strip()
Strip(s) == RStrip(LStrip(s, " "), " ")

RECURSIVE KeepAnchors(_)
KeepAnchors(items) ==
    IF items = <<>> THEN <<>>
    ELSE LET item == Head(items)
             text == Strip(Get(item, "anchor_text", <<>>))
         IN (IF text # <<>>
             THEN <<[text |-> text,
                     relevance_score |-> Get(item, "relevance_score", 50),
                     reasoning |-> Get(item, "reasoning", <<>>)]>>
             ELSE <<>>) \o KeepAnchors(Tail(items))

\* get_client(): the key is read from the configuration, no request is made
get_client(api_key) ==
    IF ~api_key THEN [ok |-> FALSE, exc |-> Exc("GeminiError", <<"Gemini API key not configured">>)]
    ELSE [ok |-> TRUE, exc |-> NoExc]

\* raw.kind = "no_client": get_client() raised, the model was not asked
extract_anchor_texts(raw, max_suggestions) ==
    IF raw.kind = "no_client"
    THEN [ok |-> FALSE, exc |-> get_client(FALSE).exc, value |-> <<>>]
    ELSE IF raw.kind = "api_error"
    THEN [ok |-> FALSE, exc |-> Exc("GeminiError", <<"Gemini error">>), value |-> <<>>]
    ELSE IF raw.kind = "no_json"
    THEN [ok |-> FALSE, exc |-> Exc("GeminiError", <<"Could not parse Gemini response">>),
          value |-> <<>>]
    ELSE IF raw.kind = "bad_json"
    THEN [ok |-> FALSE,
          exc |-> Exc("GeminiError", <<"Failed to parse Gemini response as JSON">>),
          value |-> <<>>]
    ELSE [ok |-> TRUE, exc |-> NoExc,
          value |-> KeepAnchors(Take(raw.items, max_suggestions))]

\* the k-th item of a well-formed answer (scores in hundredths)
PlainItem(k) ==
    [anchor_text |-> <<"kw", ToString(k)>>, relevance_score |-> 100 - 5 * k,
     reasoning |-> <<"why", ToString(k)>>]
\* an answer whose first item has a blank anchor text and whose second item
\* has a padded anchor text and neither score nor reasoning
OddItem(k) ==
    IF k = 1 THEN [anchor_text |-> <<" ">>, relevance_score |-> 90,
                   reasoning |-> <<"why", "1">>]
    ELSE IF k = 2 THEN [anchor_text |-> <<" ", "kw", "2", " ">>]
    ELSE PlainItem(k)

RawLens == (0..MaxShortRaw) \cup {MaxRaw}

RawAnswers ==
    {[kind |-> k, items |-> <<>>] : k \in {"api_error", "no_json", "bad_json"}}
    \cup {[kind |-> "json", items |-> [k \in 1..n |-> PlainItem(k)]] : n \in RawLens}
    \cup {[kind |-> "json", items |-> [k \in 1..n |-> OddItem(k)]] : n \in 1..MaxShortRaw}

\* what extract_anchor_texts works on: an answer of the model when get_client()
\* gave a client, nothing otherwise
ExtractorAnswers(api_key) ==
    IF get_client(api_key).ok THEN RawAnswers ELSE {[kind |-> "no_client", items |-> <<>>]}

(***************************************************************************)
(* src/src/dataforseo_client.py: _parse_response and the body of           *)
(* search_site (one transport attempt).                                    *)
(***************************************************************************)
SearchResultOf(item) ==
    [url |-> Get(item, "url", <<>>), title |-> Get(item, "title", <<>>),
     position |-> Get(item, "rank_absolute", 0),
     snippet |-> Get(item, "description", <<>>)]

RECURSIVE OrganicItems(_)
OrganicItems(items) ==
    IF items = <<>> THEN <<>>
    ELSE (IF Get(Head(items), "type", "") # "organic" THEN <<>>
          ELSE <<SearchResultOf(Head(items))>>) \o OrganicItems(Tail(items))

RECURSIVE ResultItems(_)
ResultItems(result) ==
    IF result = <<>> THEN <<>>
    ELSE OrganicItems(Get(Head(result), "items", <<>>)) \o ResultItems(Tail(result))

RECURSIVE TaskResults_AnyStatus(_)
TaskResults_AnyStatus(tasks) ==
    IF tasks = <<>> THEN <<>>
    ELSE ResultItems(Get(Head(tasks), "result", <<>>)) \o TaskResults_AnyStatus(Tail(tasks))

RECURSIVE TaskResults(_)
TaskResults(tasks) ==
    IF tasks = <<>> THEN <<>>
    ELSE (IF Get(Head(tasks), "status_code", 0) # STATUS_OK THEN <<>>
          ELSE ResultItems(Get(Head(tasks), "result", <<>>))) \o TaskResults(Tail(tasks))

parse_response_Lenient(data) ==
    [ok |-> TRUE, exc |-> NoExc, value |-> TaskResults(Get(data, "tasks", <<>>))]
parse_response(data) ==
    IF Get(data, "status_code", 0) # STATUS_OK
    THEN [ok |-> FALSE,
          exc |-> Exc("APIError",
                      <<"API error">> \o Get(data, "status_message", <<"Unknown error">>)),
          value |-> <<>>]
    ELSE [ok |-> TRUE, exc |-> NoExc, value |-> TaskResults(Get(data, "tasks", <<>>))]

\* f'site:{domain} "{keyword}"'
SearchQuery(domain, keyword) ==
    <<"site", ":">> \o domain \o <<" ", "\"">> \o keyword \o <<"\"">>

\* the undecorated search_site on one response of the transport
search_site_once(resp) ==
    IF resp.kind = "exc"
    THEN [ok |-> FALSE, exc |-> Exc("ConnectionError", <<"connection failed">>),
          value |-> <<>>]
    ELSE IF resp.kind = "timeout"
    THEN [ok |-> FALSE, exc |-> Exc("Timeout", <<"timed out">>), value |-> <<>>]
    ELSE IF resp.status = 401
    THEN [ok |-> FALSE,
          exc |-> Exc("AuthenticationError", <<"Invalid DataForSEO credentials">>),
          value |-> <<>>]
    ELSE IF resp.status = 429
    THEN [ok |-> FALSE, exc |-> Exc("RateLimitError", <<"API rate limit exceeded">>),
          value |-> <<>>]
    ELSE IF resp.status >= 400
    THEN [ok |-> FALSE, exc |-> Exc("HTTPError", <<"server error">>), value |-> <<>>]
    ELSE parse_response(resp.data)

(***************************************************************************)
(* retry_with_backoff: which exceptions the wrapper catches, what it keeps *)
(* as last_exception and how long it sleeps.                               *)
(***************************************************************************)
Retryable_AnyAPIError(e) ==
    IsInstance(e, "APIError") \/ IsInstance(e, "RequestException")
Retryable(e) == IsInstance(e, "RateLimitError") \/ IsInstance(e, "RequestException")

LastException_Raw(e) == e
LastException(e) ==
    IF IsInstance(e, "RateLimitError") THEN e
    ELSE Exc("APIError", <<"Request failed">> \o e.msg)

RetryDelay_Fixed(e, n) == BASE_RETRY_DELAY
RetryDelay(e, n) ==
    IF IsInstance(e, "RateLimitError")
    THEN Min(BASE_RETRY_DELAY * (2 ^ n), MAX_RETRY_DELAY)
    ELSE BASE_RETRY_DELAY

(***************************************************************************)
(* The decorators @sleep_and_retry and @limits(calls=30, period=60) of     *)
(* search_site (package ratelimit).  limits() builds one limiter object    *)
(* when the class body is executed: fields last_reset (clock() at that     *)
(* moment), num_calls, a lock held while a call is counted.  Its wrapper   *)
(* resets the window when period - (clock() - last_reset) <= 0, counts the *)
(* call, and raises RateLimitException(period_remaining) when the count    *)
(* exceeds `calls`; sleep_and_retry catches it, sleeps period_remaining    *)
(* and calls again.  Time is in whole seconds.                             *)
(***************************************************************************)
LIMIT_CALLS == 30
LIMIT_PERIOD == 60
RATE_LIMIT_PER_MINUTE == 30

\* threads of the process that call search_site, each through a client of its own
Callers == {"run1", "run2"}

\* the limiter object a caller's search_site goes through: the one that decorates
\* the function DataForSEOClient.search_site
LimiterOf_PerClient(c) == c
LimiterOf(c) == "search_site"

LimiterIds == {LimiterOf(c) : c \in Callers}

\* raise_on_limit, a parameter of limits() left at its default
RaiseOnLimit_Off == FALSE
RaiseOnLimit == TRUE

\* if period_remaining <= 0
WindowElapsed(remaining) == remaining <= 0

\* the limiter's wrapper, under its lock, at clock() = t
LimiterEnter(lim, t) ==
    LET remaining == LIMIT_PERIOD - (t - lim.last_reset)
        reset == WindowElapsed(remaining)
        n == (IF reset THEN 0 ELSE lim.num_calls) + 1
    IN [lim |-> [last_reset |-> IF reset THEN t ELSE lim.last_reset, num_calls |-> n],
        reset |-> reset,
        admit |-> ~(n > Max(1, LIMIT_CALLS)),
        remaining |-> remaining]

(***************************************************************************)
(* src/src/link_finder.py: InternalLinkFinder.find_opportunities, one run. *)
(***************************************************************************)
VARIABLES
    source_url,         \* the argument of find_opportunities
    pc,                 \* position of the run in find_opportunities
    page_content,       \* PageContent returned by scrape_page
    normalized_source,  \* normalize_url(source_url), computed after the fetch
    anchor_suggestions, \* list returned by extract_anchor_texts
    i,                  \* index of the per-anchor loop (0-based, as enumerate)
    suggestion,         \* the LinkSuggestion of the anchor being processed
    results,            \* list returned by search_site for this anchor
    r_idx,              \* results already walked by the inner loop
    urls_added,         \* counter of the inner loop
    suggestions,        \* the run's suggestion list
    errors,             \* the run's error list
    raised,             \* the exception that left find_opportunities, or NoExc
    attempt,            \* retry_with_backoff: loop variable of the wrapper
    last_exception,     \* retry_with_backoff: last_exception
    slept,              \* retry_with_backoff: the delays slept in this call
    search_exc,         \* the exception search_site raised into the run
    calls,              \* collaborator calls made, in order
    outcomes,           \* how each finished search_site call ended, in order
    page_fetch,         \* what the web answered to the fetch ("none" before)
    llm_answer,         \* kind and length of the language model's answer
    status_log,         \* messages passed to update_status, in order
    progress_log,       \* arguments passed to on_keyword_progress, in order
    eventful,           \* searches answered with more than an empty page
    responses,          \* one observed search_site call: what session.post answered,
                        \* attempt by attempt
    now,                \* the clock, in seconds since the limiter was built
    limiter,            \* the limiter objects: last_reset and num_calls
    window_admitted,    \* calls a limiter let through since its last reset
    cst,                \* each caller: "idle", "sleeping" (in sleep_and_retry),
                        \* "done" (its call was let through and ran), "dropped"
    wake,               \* each sleeping caller: the time its sleep ends
    admissions,         \* the calls let through in the last LIMIT_PERIOD seconds:
                        \* time, number, callers
    issued,             \* search_site calls started so far
    ticks,              \* time steps taken so far
    run,                \* concurrent runs of find_opportunities: the call frame
                        \* of each
    balance_log,        \* the check_balance calls made so far: the answer to the
                        \* GET and how the call ended
    util,               \* a call of a URL utility of utils.py: the URL it is given,
                        \* the function called and what it returned
    creds,              \* the configuration: whether DATAFORSEO_LOGIN,
                        \* DATAFORSEO_PASSWORD and GEMINI_API_KEY are set
    gate,               \* the observed search_site call at the limiter: how often
                        \* it went through it and how often it was let through
    given,              \* two runs compared: the source URL, the answers of the
                        \* collaborators and what the hooks of the first run do
    cli                 \* one invocation of the command line: its arguments, where
                        \* main() stands, what it printed and wrote, its exit status

vars == <<source_url, pc, page_content, normalized_source, anchor_suggestions, i,
          suggestion, results, r_idx, urls_added, suggestions, errors, raised,
          attempt, last_exception, slept, search_exc, calls, outcomes, page_fetch,
          llm_answer, status_log, progress_log, eventful, responses,
          now, limiter, window_admitted, cst, wake, admissions, issued, ticks, run,
          balance_log, util, creds, given, gate, cli>>

\* the state of the observed search client, which a run of find_opportunities on
\* its own leaves alone
lvars == <<now, limiter, window_admitted, cst, wake, admissions, issued, ticks>>
\* the state of the operations next to a run (account status, URL utilities)
ovars == <<balance_log, util, creds, given, gate, cli>>
cvars == <<responses, lvars, run, ovars>>

\* no answer of the language model yet
NoAnswer == [kind |-> "none", n |-> 0]

\* the call frame of find_opportunities(source) before its first statement
Frame(source) ==
    [pc |-> "start", source_url |-> source, normalized_source |-> <<>>,
     domain |-> <<>>, anchor_suggestions |-> <<>>, i |-> 0, suggestions |-> <<>>,
     errors |-> <<>>, raised |-> NoExc, fetched |-> "none", raw |-> NoAnswer,
     seen |-> <<>>, made |-> <<>>, events |-> <<>>,
     result |-> [returned |-> FALSE, suggestions |-> <<>>, errors |-> <<>>]]

\* no concurrent run is observed
NoRuns == [r \in Callers |-> Frame(<<>>)]

\* the process after import: the limiter was just built, nobody has called
LimiterStart ==
    /\ now = 0
    /\ limiter = [l \in LimiterIds |-> [last_reset |-> 0, num_calls |-> 0]]
    /\ window_admitted = [l \in LimiterIds |-> 0]
    /\ cst = [c \in Callers |-> "idle"]
    /\ wake = [c \in Callers |-> 0]
    /\ admissions = <<>>
    /\ issued = 0
    /\ ticks = 0

\* no operation next to a run has been called
\* no URL utility is observed
NoUtil ==
    [parts |-> [scheme |-> <<>>, www |-> 0, host |-> <<>>, path |-> <<>>,
                query |-> <<>>, fragment |-> <<>>],
     url |-> <<>>, op |-> "none", out |-> <<>>, again |-> <<>>, valid |-> FALSE,
     other |-> <<>>, other_out |-> <<>>, differ |-> "none"]

\* no runs are compared
NoGiven ==
    [source |-> <<>>, fetched |-> "none", raw |-> NoAnswer, searches |-> <<>>,
     status_hook |-> "absent", progress_hook |-> "absent"]

\* the observed call has not come to the limiter
NoGate == [passes |-> 0, admitted |-> 0]
\* main() was not invoked
NoCli == [pc |-> "none", url |-> <<>>, no_csv |-> FALSE, verbose |-> FALSE,
          called |-> FALSE, suggestions |-> <<>>, errors |-> <<>>, out |-> <<>>,
          csv |-> FALSE, exit |-> "none"]

\* every credential is configured
AllCreds == [login |-> TRUE, password |-> TRUE, api_key |-> TRUE]

OtherStart ==
    /\ balance_log = <<>>
    /\ util = NoUtil
    /\ creds = AllCreds
    /\ given = NoGiven
    /\ gate = NoGate
    /\ cli = NoCli

NoSuggestion == [anchor_text |-> <<>>, relevance_score |-> 0, reasoning |-> <<>>,
                 target_urls |-> <<>>]

Call(fn, a, b) == [fn |-> fn, a |-> a, b |-> b]

\* if not validate_url(source_url)
UrlAccepted_Always(url) == TRUE
UrlAccepted(url) == validate_url(url)

\* anchor_suggestions[:Config.MAX_KEYWORDS]
ProcessedAnchors_Short(anchors) == Take(anchors, MAX_KEYWORDS - 1)
ProcessedAnchors(anchors) == Take(anchors, MAX_KEYWORDS)

\* not anchor_suggestions
NoAnchors_Never(anchors) == FALSE
NoAnchors(anchors) == anchors = <<>>

\* normalize_url(result.url) == normalized_source
IsSelfLink_Raw(url, norm_source) == url = norm_source
IsSelfLink(url, norm_source) == normalize_url(url) = norm_source

\* urls_added >= Config.MAX_TARGET_URLS_PER_KEYWORD
BudgetFilled_OffByOne(n) == n > MAX_TARGET_URLS_PER_KEYWORD
BudgetFilled(n) == n >= MAX_TARGET_URLS_PER_KEYWORD

\* except APIError as e
CaughtAsAPIError_ExactType(e) == e.type = "APIError"
CaughtAsAPIError(e) == IsInstance(e, "APIError")

\* keyword=anchor.text
SearchKeyword_Reasoning(anchor) == anchor.reasoning
SearchKeyword(anchor) == anchor.text

Init ==
    /\ source_url \in SourceUrls
    /\ pc = "validate"
    /\ page_content = NullPage
    /\ normalized_source = <<>>
    /\ anchor_suggestions = <<>>
    /\ i = 0
    /\ suggestion = NoSuggestion
    /\ results = <<>>
    /\ r_idx = 0
    /\ urls_added = 0
    /\ suggestions = <<>>
    /\ errors = <<>>
    /\ raised = NoExc
    /\ attempt = 0
    /\ last_exception = NoExc
    /\ slept = <<>>
    /\ search_exc = NoExc
    /\ calls = <<>>
    /\ outcomes = <<>>
    /\ page_fetch = "none"
    /\ llm_answer = NoAnswer
    /\ status_log = <<>>
    /\ progress_log = <<>>
    /\ eventful = 0
    /\ responses = <<>>
    /\ LimiterStart
    /\ run = NoRuns
    /\ OtherStart

\* if not validate_url(source_url): raise ValueError
Validate ==
    /\ pc = "validate"
    /\ UNCHANGED cvars
    /\ IF UrlAccepted(source_url)
       THEN pc' = "scrape" /\ UNCHANGED raised
       ELSE pc' = "raised" /\ raised' = Exc("ValueError", <<"Invalid URL">>)
    /\ UNCHANGED <<source_url, page_content, normalized_source, anchor_suggestions, i,
                   suggestion, results, r_idx, urls_added, suggestions, errors,
                   attempt, last_exception, slept, search_exc, calls, outcomes,
                   page_fetch, llm_answer, status_log, progress_log, eventful>>

\* update_status("Scraping page content..."); page_content = scrape_page(source_url);
\* normalized_source = normalize_url(source_url)
Scrape ==
    /\ pc = "scrape"
    /\ UNCHANGED cvars
    /\ \E fetched \in Fetches :
         \E r \in {scrape_page(source_url, fetched)} :
            /\ page_fetch' = fetched
            /\ IF r.ok
               THEN /\ page_content' = r.page
                    /\ normalized_source' = normalize_url(source_url)
                    /\ pc' = "extract"
                    /\ UNCHANGED raised
               ELSE /\ raised' = r.exc
                    /\ pc' = "raised"
                    /\ UNCHANGED <<page_content, normalized_source>>
    /\ status_log' = Append(status_log, "Scraping page content...")
    /\ calls' = Append(calls, Call("scrape_page", source_url, <<>>))
    /\ UNCHANGED <<source_url, anchor_suggestions, i, suggestion, results, r_idx,
                   urls_added, suggestions, errors, attempt, last_exception, slept,
                   search_exc, outcomes, llm_answer, progress_log, eventful>>

\* update_status("Analyzing..."); extract_anchor_texts(...); the two early returns;
\* update_status("Found n ..."); update_status("Searching for target pages...")
Extract ==
    /\ pc = "extract"
    /\ UNCHANGED cvars
    /\ \E raw \in ExtractorAnswers(creds.api_key) :
         \E r \in {extract_anchor_texts(raw, MAX_KEYWORDS)} :
            /\ llm_answer' = [kind |-> raw.kind, n |-> Len(raw.items)]
            /\ IF ~r.ok
               THEN /\ errors' = Append(errors, [prefix |-> "Gemini AI error",
                                                 anchor |-> <<>>, detail |-> r.exc.msg])
                    /\ pc' = "returned"
                    /\ status_log' = Append(status_log, "Analyzing content with Gemini AI...")
                    /\ UNCHANGED anchor_suggestions
               ELSE IF NoAnchors(r.value)
               THEN /\ errors' = Append(errors,
                           [prefix |-> "Gemini could not extract any anchor text suggestions",
                            anchor |-> <<>>, detail |-> <<>>])
                    /\ pc' = "returned"
                    /\ status_log' = Append(status_log, "Analyzing content with Gemini AI...")
                    /\ anchor_suggestions' = r.value
               ELSE /\ anchor_suggestions' = r.value
                    /\ pc' = "loop"
                    /\ status_log' = status_log \o
                           << "Analyzing content with Gemini AI...",
                              "Found anchor text suggestions",
                              "Searching for target pages..." >>
                    /\ UNCHANGED errors
    /\ calls' = Append(calls, Call("extract_anchor_texts", page_content.domain,
                                   <<ToString(MAX_KEYWORDS)>>))
    /\ UNCHANGED <<source_url, page_content, normalized_source, i, suggestion, results,
                   r_idx, urls_added, suggestions, raised, attempt, last_exception,
                   slept, search_exc, outcomes, page_fetch, progress_log, eventful>>

\* for i, anchor in enumerate(anchor_suggestions[:MAX_KEYWORDS]): progress hook and
\* suggestion = LinkSuggestion(...); after the loop update_status("Analysis complete!")
\* and return
LoopHead ==
    /\ pc = "loop"
    /\ UNCHANGED cvars
    /\ IF i < Len(ProcessedAnchors(anchor_suggestions))
       THEN \E anchor \in {ProcessedAnchors(anchor_suggestions)[i + 1]} :
               /\ progress_log' = Append(progress_log,
                       [current |-> i + 1, total |-> Len(anchor_suggestions),
                        keyword |-> anchor.text])
               /\ suggestion' = [anchor_text |-> anchor.text,
                                 relevance_score |-> anchor.relevance_score,
                                 reasoning |-> anchor.reasoning,
                                 target_urls |-> <<>>]
               /\ pc' = "call"
               /\ UNCHANGED status_log
       ELSE /\ status_log' = Append(status_log, "Analysis complete!")
            /\ pc' = "returned"
            /\ UNCHANGED <<progress_log, suggestion>>
    /\ UNCHANGED <<source_url, page_content, normalized_source, anchor_suggestions, i,
                   results, r_idx, urls_added, suggestions, errors, raised, attempt,
                   last_exception, slept, search_exc, calls, outcomes, page_fetch,
                   llm_answer, eventful>>

\* self.client.search_site(domain=page_content.domain, keyword=anchor.text, depth=...):
\* the call enters the decorators; the wrapper sets last_exception = None
SearchCall ==
    /\ pc = "call"
    /\ UNCHANGED cvars
    /\ calls' = Append(calls,
           Call("search_site", page_content.domain,
                SearchKeyword(ProcessedAnchors(anchor_suggestions)[i + 1])))
    /\ attempt' = 0
    /\ last_exception' = NoExc
    /\ slept' = <<>>
    /\ search_exc' = NoExc
    /\ results' = <<>>
    /\ pc' = "attempt"
    /\ UNCHANGED <<source_url, page_content, normalized_source, anchor_suggestions, i,
                   suggestion, r_idx, urls_added, suggestions, errors, raised,
                   outcomes, page_fetch, llm_answer, status_log, progress_log, eventful>>

\* one pass of the wrapper's loop: func(*args), then return, or an except clause, or
\* the exception leaves the wrapper; after the last pass raise last_exception.  The
\* wrapper's locals (attempt, last_exception, the sleeps) end with the call.
SearchAttempt ==
    /\ pc = "attempt"
    /\ UNCHANGED cvars
    /\ \E resp \in Responses :
         /\ Uneventful(resp) \/ attempt > 0 \/ eventful < MaxEventful
         /\ eventful' = IF attempt = 0 /\ ~Uneventful(resp) THEN eventful + 1
                        ELSE eventful
         /\ \E r \in {search_site_once(resp)} :
               IF r.ok
               THEN /\ results' = r.value
                    /\ urls_added' = 0
                    /\ r_idx' = 0
                    /\ outcomes' = Append(outcomes, "ok")
                    /\ pc' = "filter"
                    /\ attempt' = 0 /\ last_exception' = NoExc /\ slept' = <<>>
                    /\ UNCHANGED search_exc
               ELSE IF ~Retryable(r.exc)
               THEN /\ search_exc' = r.exc
                    /\ outcomes' = Append(outcomes, r.exc.type)
                    /\ pc' = "search_raised"
                    /\ attempt' = 0 /\ last_exception' = NoExc /\ slept' = <<>>
                    /\ UNCHANGED <<results, urls_added, r_idx>>
               ELSE IF attempt < MAX_RETRIES
               THEN /\ last_exception' = LastException(r.exc)
                    /\ pc' = "backoff"
                    /\ UNCHANGED <<results, urls_added, r_idx, search_exc, outcomes,
                                   attempt, slept>>
               ELSE /\ search_exc' = LastException(r.exc)
                    /\ outcomes' = Append(outcomes, LastException(r.exc).type)
                    /\ pc' = "search_raised"
                    /\ attempt' = 0 /\ last_exception' = NoExc /\ slept' = <<>>
                    /\ UNCHANGED <<results, urls_added, r_idx>>
    /\ UNCHANGED <<source_url, page_content, normalized_source, anchor_suggestions, i,
                   suggestion, suggestions, errors, raised, calls, page_fetch,
                   llm_answer, status_log, progress_log>>

\* time.sleep(delay) in an except clause, then the next pass of the loop
Backoff ==
    /\ pc = "backoff"
    /\ UNCHANGED cvars
    /\ slept' = Append(slept, RetryDelay(last_exception, attempt))
    /\ attempt' = attempt + 1
    /\ pc' = "attempt"
    /\ UNCHANGED <<source_url, page_content, normalized_source, anchor_suggestions, i,
                   suggestion, results, r_idx, urls_added, suggestions, errors, raised,
                   last_exception, search_exc, calls, outcomes, page_fetch,
                   llm_answer, status_log, progress_log, eventful>>

\* except APIError as e: errors.append(error_msg); any other exception leaves
\* find_opportunities
HandleSearchError ==
    /\ pc = "search_raised"
    /\ UNCHANGED cvars
    /\ IF CaughtAsAPIError(search_exc)
       THEN /\ errors' = Append(errors, [prefix |-> "API error for",
                                         anchor |-> suggestion.anchor_text,
                                         detail |-> search_exc.msg])
            /\ pc' = "append"
            /\ UNCHANGED raised
       ELSE /\ raised' = search_exc
            /\ pc' = "raised"
            /\ UNCHANGED errors
    /\ UNCHANGED <<source_url, page_content, normalized_source, anchor_suggestions, i,
                   suggestion, results, r_idx, urls_added, suggestions, attempt,
                   last_exception, slept, search_exc, calls, outcomes, page_fetch,
                   llm_answer, status_log, progress_log, eventful>>

\* one pass of `for result in results`
FilterStep ==
    /\ pc = "filter"
    /\ UNCHANGED cvars
    /\ IF r_idx >= Len(results)
       THEN /\ pc' = "append"
            /\ UNCHANGED <<suggestion, urls_added, r_idx>>
       ELSE \E result \in {results[r_idx + 1]} :
               IF IsSelfLink(result.url, normalized_source)
               THEN /\ r_idx' = r_idx + 1
                    /\ UNCHANGED <<suggestion, urls_added, pc>>
               ELSE /\ suggestion' =
                          [suggestion EXCEPT !.target_urls =
                             Append(@, [url |-> result.url, title |-> result.title,
                                        position |-> result.position])]
                    /\ urls_added' = urls_added + 1
                    /\ r_idx' = r_idx + 1
                    /\ pc' = IF BudgetFilled(urls_added + 1) THEN "append" ELSE "filter"
    /\ UNCHANGED <<source_url, page_content, normalized_source, anchor_suggestions, i,
                   results, suggestions, errors, raised, attempt, last_exception,
                   slept, search_exc, calls, outcomes, page_fetch, llm_answer,
                   status_log, progress_log, eventful>>

\* suggestions.append(suggestion), and on to the next anchor: the names suggestion,
\* results and urls_added are rebound there before they are read again
AppendSuggestion ==
    /\ pc = "append"
    /\ UNCHANGED cvars
    /\ suggestions' = Append(suggestions, suggestion)
    /\ i' = i + 1
    /\ pc' = "loop"
    /\ suggestion' = NoSuggestion
    /\ results' = <<>>
    /\ r_idx' = 0
    /\ urls_added' = 0
    /\ search_exc' = NoExc
    /\ UNCHANGED <<source_url, page_content, normalized_source, anchor_suggestions,
                   errors, raised, attempt, last_exception, slept, calls, outcomes,
                   page_fetch, llm_answer, status_log, progress_log, eventful>>

Next ==
    \/ Validate
    \/ Scrape
    \/ Extract
    \/ LoopHead
    \/ SearchCall
    \/ SearchAttempt
    \/ Backoff
    \/ HandleSearchError
    \/ FilterStep
    \/ AppendSuggestion

Spec == Init /\ [][Next]_vars

(***************************************************************************)
(* Properties of a run.                                                    *)
(***************************************************************************)
Range(seq) == {seq[k] : k \in 1..Len(seq)}

\* the URL utilities, tabulated over the URLs of the model
KnownUrls ==
    SourceUrls \cup {UrlSelfA, UrlSelfB, UrlSelfC, UrlA, UrlB, UrlC, UrlE, UrlParent,
                     UrlPQ}
Normalized == [u \in KnownUrls |-> normalize_url(u)]
RootDomain == [u \in SourceUrls |-> extract_domain(u)]
IsValidUrl == [u \in SourceUrls |-> validate_url(u)]

\* the run left find_opportunities through `return suggestions, errors`
Returned == pc = "returned"

\* C1: every suggestion, finished or under construction, has at most
\* MAX_TARGET_URLS_PER_KEYWORD target URLs, none of which normalizes to the
\* normalized source URL; in every state of the run.
C1_TargetsBoundedNoSelfLink ==
    \A s \in Range(suggestions) \cup {suggestion} :
       /\ Len(s.target_urls) <= MAX_TARGET_URLS_PER_KEYWORD
       /\ \A k \in 1..Len(s.target_urls) :
             Normalized[s.target_urls[k].url] # Normalized[source_url]

\* C1 witness: the inner loop stopped with the budget filled, after it skipped a
\* spelling of the source URL, with results left unread.
C1_Witness ==
    /\ pc = "append"
    /\ Len(suggestion.target_urls) = MAX_TARGET_URLS_PER_KEYWORD
    /\ r_idx < Len(results)
    /\ \E k \in 1..r_idx : Normalized[results[k].url] = Normalized[source_url]

\* the results of the current search that do not normalize to the source URL
NonSelfResults ==
    LET Keep(r) == Normalized[r.url] # Normalized[source_url]
    IN SelectSeq(results, Keep)

AsTarget(r) == [url |-> r.url, title |-> r.title, position |-> r.position]

\* C2: when the search of an anchor succeeded, the finished target list is the
\* first min(3, k) of the k results that do not normalize to the source URL, in
\* the order search_site returned them.
C2_TargetsAreFirstNonSelfResults ==
    (pc = "append" /\ search_exc = NoExc) =>
       suggestion.target_urls =
          [k \in 1..Min(MAX_TARGET_URLS_PER_KEYWORD, Len(NonSelfResults)) |->
              AsTarget(NonSelfResults[k])]

\* C2 witness: the results are a spelling of the source URL followed by two other
\* pages, and the target list is those two.
C2_Witness ==
    /\ pc = "append"
    /\ search_exc = NoExc
    /\ Len(results) = 3
    /\ Normalized[results[1].url] = Normalized[source_url]
    /\ Len(suggestion.target_urls) = 2

\* the anchors whose search_site call raised, in anchor order
FailedIdx == {k \in 1..Len(outcomes) : outcomes[k] # "ok"}
FailedAnchors ==
    LET Failed(k) == outcomes[k] # "ok"
        f == SelectSeq([k \in 1..Len(outcomes) |-> k], Failed)
    IN [j \in 1..Len(f) |-> anchor_suggestions[f[j]].text]

\* C3: between two anchors and at return, errors holds exactly one entry per
\* anchor whose search failed, naming that anchor, in anchor order; each such
\* anchor still has its suggestion, with no target URL; a search that failed with
\* APIError or RateLimitError never ends the run with an exception; and at return
\* every processed anchor was searched.
C3_FailedSearchIsRecordedAndRunContinues ==
    /\ (pc \in {"loop", "returned"} /\ anchor_suggestions # <<>>) =>
          /\ [k \in 1..Len(errors) |-> errors[k].anchor] = FailedAnchors
          /\ \A k \in 1..Len(errors) : errors[k].prefix = "API error for"
          /\ Len(suggestions) = Len(outcomes)
          /\ \A k \in FailedIdx :
                /\ suggestions[k].anchor_text = anchor_suggestions[k].text
                /\ suggestions[k].target_urls = <<>>
    /\ (Returned /\ anchor_suggestions # <<>>) =>
          Len(outcomes) = Min(Len(anchor_suggestions), MAX_KEYWORDS)
    /\ pc = "raised" =>
          \A k \in 1..Len(outcomes) : outcomes[k] \notin {"APIError", "RateLimitError"}

\* C3 witness: a run that returned after one search failed with an exhausted rate
\* limit, a later one with a generic API error and a still later one succeeded.
C3_Witness ==
    /\ Returned
    /\ Len(errors) = 2
    /\ \E j, k, m \in 1..Len(outcomes) :
          /\ j < k /\ k < m
          /\ outcomes[j] = "RateLimitError"
          /\ outcomes[k] = "APIError"
          /\ outcomes[m] = "ok"

\* C4: a search that ended with AuthenticationError (HTTP 401) ends the run: the
\* exception leaves find_opportunities and no error entry is recorded for it.
C4_AuthenticationErrorIsFatal ==
    \A k \in 1..Len(outcomes) :
       outcomes[k] = "AuthenticationError" =>
          /\ k = Len(outcomes)
          /\ pc \in {"search_raised", "raised"}
          /\ pc = "raised" => raised.type = "AuthenticationError"
          /\ \A e \in Range(errors) : e.anchor # anchor_suggestions[k].text

\* the extractor raised GeminiError, or returned an empty list
ExtractionFailedOrEmpty ==
    \/ llm_answer.kind \in {"api_error", "no_json", "bad_json"}
    \/ llm_answer.kind = "json" /\ anchor_suggestions = <<>>

\* C5: when extraction fails or yields no candidate, the run returns normally with
\* no suggestion and exactly one error, and search_site is never called.
C5_ExtractionFailureReturnsOneError ==
    ExtractionFailedOrEmpty =>
       /\ Returned
       /\ raised = NoExc
       /\ suggestions = <<>>
       /\ Len(errors) = 1
       /\ \A c \in Range(calls) : c.fn # "search_site"
       /\ outcomes = <<>>

\* C5 witness: the language model answered with items, all of them blank, and the
\* run returned.
C5_Witness ==
    /\ Returned
    /\ llm_answer.kind = "json"
    /\ llm_answer.n >= 1
    /\ anchor_suggestions = <<>>

\* C6: at return of a run that reached the per-anchor stage, suggestions has one
\* entry per processed anchor (the first min(n, MAX_KEYWORDS) of the extractor's
\* list), in that order, each with the anchor's text, score and reasoning.
C6_OneSuggestionPerProcessedAnchor ==
    (Returned /\ anchor_suggestions # <<>>) =>
       /\ Len(suggestions) = Min(Len(anchor_suggestions), MAX_KEYWORDS)
       /\ \A k \in 1..Len(suggestions) :
             /\ suggestions[k].anchor_text = anchor_suggestions[k].text
             /\ suggestions[k].relevance_score = anchor_suggestions[k].relevance_score
             /\ suggestions[k].reasoning = anchor_suggestions[k].reasoning

\* C6 witness: a returned run with MAX_KEYWORDS suggestions, one without target URL
\* and one with target URLs.
C6_Witness ==
    /\ Returned
    /\ Len(suggestions) = MAX_KEYWORDS
    /\ \E k \in 1..Len(suggestions) : suggestions[k].target_urls = <<>>
    /\ \E k \in 1..Len(suggestions) : suggestions[k].target_urls # <<>>

\* C7: there are never more than 10 suggestions.
C7_AtMostTenSuggestions == Len(suggestions) <= 10

\* C7 witness: the language model answered with more than 10 items and the run
\* returned 10 suggestions.
C7_Witness ==
    /\ Returned
    /\ llm_answer.n > 10
    /\ Len(suggestions) = 10

\* C8: a run whose source URL fails validate_url only ever raises ValueError: it
\* makes no collaborator call and notifies no hook.
C8_InvalidUrlFailsBeforeAnyCall ==
    ~IsValidUrl[source_url] =>
       /\ pc = "validate" \/ (pc = "raised" /\ raised.type = "ValueError")
       /\ calls = <<>>
       /\ page_fetch = "none"
       /\ llm_answer = NoAnswer
       /\ outcomes = <<>>
       /\ status_log = <<>>
       /\ progress_log = <<>>

\* C8 witness: a run raised ValueError.
C8_Witness == pc = "raised" /\ raised.type = "ValueError" /\ ~IsValidUrl[source_url]

\* C9: once the fetch failed (timeout, HTTP error, transport error, no extractable
\* text) the run has raised ScrapingError, holds no result, and has called neither
\* the extractor nor the search client.
C9_FetchFailureAbortsRun ==
    page_fetch \in {"timeout", "http_error", "conn_error", "empty"} =>
       /\ pc = "raised"
       /\ raised.type = "ScrapingError"
       /\ calls = <<Call("scrape_page", source_url, <<>>)>>
       /\ llm_answer = NoAnswer
       /\ outcomes = <<>>
       /\ suggestions = <<>>
       /\ errors = <<>>

\* C9 witness: the page was fetched but has no extractable text, and the run raised.
C9_Witness == page_fetch = "empty" /\ pc = "raised"

\* the collaborator calls of a run that has started the search of m anchors
ExpectedCalls(m) ==
    << Call("scrape_page", source_url, <<>>),
       Call("extract_anchor_texts", RootDomain[source_url],
            <<ToString(MAX_KEYWORDS)>>) >>
    \o [k \in 1..m |->
          Call("search_site", RootDomain[source_url], anchor_suggestions[k].text)]

\* C10: the calls made so far are: nothing before the fetch; the fetch alone until
\* the extraction; then the extraction; then one search_site call per anchor, in
\* anchor order, on the root domain of the source URL with the anchor's text, the
\* k-th of them started only after k - 1 suggestions were finished; and at return
\* after the loop one search_site call per processed anchor.
C10_StagesAreSequential ==
    /\ pc \in {"validate", "scrape"} => calls = <<>>
    /\ pc = "extract" =>
          calls = <<Call("scrape_page", source_url, <<>>)>> /\ page_fetch = "ok"
    /\ pc \in {"loop", "call"} =>
          calls = ExpectedCalls(Len(suggestions)) /\ Len(outcomes) = Len(suggestions)
    /\ pc \in {"attempt", "backoff"} =>
          /\ calls = ExpectedCalls(Len(suggestions) + 1)
          /\ Len(outcomes) = Len(suggestions)
    /\ pc \in {"filter", "search_raised", "append"} =>
          /\ calls = ExpectedCalls(Len(suggestions) + 1)
          /\ Len(outcomes) = Len(suggestions) + 1
    /\ Returned =>
          calls = ExpectedCalls(Min(Len(anchor_suggestions), MAX_KEYWORDS))

\* C10 witness: a returned run with the fetch, the extraction and MAX_KEYWORDS
\* searches, one of which failed.
C10_Witness ==
    /\ Returned
    /\ Len(calls) = 2 + MAX_KEYWORDS
    /\ \E k \in 1..Len(outcomes) : outcomes[k] # "ok"

(***************************************************************************)
(* src/src/dataforseo_client.py: one search_site call observed on its own, *)
(* from the entry of retry_with_backoff's wrapper (after the limiter has   *)
(* admitted the call) to its return or raise.  The wrapper's locals keep   *)
(* their last values when the call has ended, and `responses` records what *)
(* session.post answered on each pass.                                     *)
(***************************************************************************)
\* a response without top-level status code
PayloadNoStatus == [tasks |-> <<Task(STATUS_OK, <<Organic(UrlA, 1)>>)>>]

\* a successful task, a failed one, then a successful task with two result
\* pages, an item without type and an item with nothing but its type
PayloadTasks ==
    [status_code |-> STATUS_OK, status_message |-> <<"Ok.">>,
     tasks |-> << Task(STATUS_OK, <<Organic(UrlB, 1), Paid(UrlE, 2)>>),
                  Task(40400, <<Organic(UrlC, 1)>>),
                  [status_code |-> STATUS_OK,
                   result |-> << [items |-> <<Paid(UrlE, 1), Organic(UrlA, 2)>>],
                                 [total |-> 0],
                                 [items |-> <<[url |-> UrlC], [type |-> "organic"],
                                              Bare(UrlPQ)>>] >>],
                  [status_code |-> STATUS_OK] >>]

ClientResponses ==
    Responses
    \cup {[kind |-> "http", status |-> 200, data |-> P] : P \in {PayloadNoStatus, PayloadTasks}}
    \cup {[kind |-> "timeout", status |-> 0, data |-> PayloadEmpty]}

\* for attempt in range(max_retries + 1): the next pass, whichever except clause
\* ended the last one
NextAttempt_PerKind(e, n) == IF IsInstance(e, "RateLimitError") THEN n + 1 ELSE n
NextAttempt(e, n) == n + 1

\* if attempt < max_retries
MayRetry_Once(n) == n < 1
MayRetry(n) == n < MAX_RETRIES

RetryInit ==
    /\ source_url = SrcPage
    /\ pc = "attempt"
    /\ page_content = NullPage
    /\ normalized_source = <<>>
    /\ anchor_suggestions = <<>>
    /\ i = 0
    /\ suggestion = NoSuggestion
    /\ results = <<>>
    /\ r_idx = 0
    /\ urls_added = 0
    /\ suggestions = <<>>
    /\ errors = <<>>
    /\ raised = NoExc
    /\ attempt = 0
    /\ last_exception = NoExc
    /\ slept = <<>>
    /\ search_exc = NoExc
    /\ calls = <<>>
    /\ outcomes = <<>>
    /\ page_fetch = "none"
    /\ llm_answer = NoAnswer
    /\ status_log = <<>>
    /\ progress_log = <<>>
    /\ eventful = 0
    /\ responses = <<>>
    /\ LimiterStart
    /\ run = NoRuns
    /\ OtherStart

\* what a run of find_opportunities owns, which the observed call leaves alone
runvars == <<source_url, page_content, normalized_source, anchor_suggestions, i,
             suggestion, r_idx, urls_added, suggestions, errors, raised, calls,
             outcomes, page_fetch, llm_answer, status_log, progress_log, eventful>>

\* one pass of `for attempt in range(max_retries + 1)`: return func(*args), or an
\* except clause, or the exception leaves the wrapper; after the last pass
\* raise last_exception
RetryAttempt ==
    /\ pc = "attempt"
    /\ \E resp \in ClientResponses :
         \E r \in {search_site_once(resp)} :
            /\ responses' = Append(responses, resp)
            /\ IF r.ok
               THEN /\ results' = r.value
                    /\ pc' = "call_returned"
                    /\ UNCHANGED <<last_exception, search_exc>>
               ELSE IF ~Retryable(r.exc)
               THEN /\ search_exc' = r.exc
                    /\ pc' = "call_raised"
                    /\ UNCHANGED <<last_exception, results>>
               ELSE IF MayRetry(attempt)
               THEN /\ last_exception' = LastException(r.exc)
                    /\ pc' = "backoff"
                    /\ UNCHANGED <<search_exc, results>>
               ELSE /\ last_exception' = LastException(r.exc)
                    /\ search_exc' = LastException(r.exc)
                    /\ pc' = "call_raised"
                    /\ UNCHANGED results
    /\ UNCHANGED <<attempt, slept>>
    /\ UNCHANGED <<runvars, lvars, run, ovars>>

\* time.sleep(delay) in an except clause, then the next pass of the loop
RetryBackoff ==
    /\ pc = "backoff"
    /\ slept' = Append(slept, RetryDelay(last_exception, attempt))
    /\ attempt' = NextAttempt(last_exception, attempt)
    /\ pc' = "attempt"
    /\ UNCHANGED <<results, last_exception, search_exc, responses>>
    /\ UNCHANGED <<runvars, lvars, run, ovars>>

RetryNext ==
    \/ RetryAttempt
    \/ RetryBackoff

RetrySpec == RetryInit /\ [][RetryNext]_vars

(***************************************************************************)
(* Properties of one search_site call.                                     *)
(***************************************************************************)
CallEnded == pc \in {"call_returned", "call_raised"}

Is401(resp) == resp.kind = "http" /\ resp.status = 401
Is429(resp) == resp.kind = "http" /\ resp.status = 429
IsTransportFailure(resp) == resp.kind \in {"exc", "timeout"}
HasBadTopStatus(resp) ==
    /\ resp.kind = "http"
    /\ resp.status = 200
    /\ ("status_code" \notin DOMAIN resp.data \/ resp.data.status_code # 20000)

\* C11: a 401 answer is the last transport attempt of the call, whichever pass it
\* arrives on: the call has raised AuthenticationError, no sleep followed the 401
\* and the attempt counter did not advance.
C11_UnauthorizedIsNotRetried ==
    \A k \in 1..Len(responses) :
       Is401(responses[k]) =>
          /\ k = Len(responses)
          /\ pc = "call_raised"
          /\ search_exc = Exc("AuthenticationError", <<"Invalid DataForSEO credentials">>)
          /\ Len(slept) = k - 1
          /\ attempt = k - 1

\* C11 witness: the 401 arrived on the third pass, after two retried failures.
C11_Witness ==
    /\ pc = "call_raised"
    /\ Len(responses) = 3
    /\ Is401(responses[3])

\* C12: while every answer of the call is a 429, the call makes at most
\* MAX_RETRIES + 1 transport attempts, never returns, and has ended exactly when
\* MAX_RETRIES + 1 attempts were made, with RateLimitError.
C12_RateLimitedCallMakesFourAttempts ==
    (responses # <<>> /\ \A k \in 1..Len(responses) : Is429(responses[k])) =>
       /\ Len(responses) <= MAX_RETRIES + 1
       /\ pc # "call_returned"
       /\ pc = "call_raised" <=> Len(responses) = MAX_RETRIES + 1
       /\ pc = "call_raised" =>
             search_exc = Exc("RateLimitError", <<"API rate limit exceeded">>)

\* C12 witness: four 429 answers and the call has raised.
C12_Witness ==
    /\ pc = "call_raised"
    /\ Len(responses) = 4
    /\ \A k \in 1..4 : Is429(responses[k])

\* C13: a 429 on pass a (0-based) that is not the last allowed pass is followed by
\* a sleep of min(BASE_RETRY_DELAY * 2^a, MAX_RETRY_DELAY); no delay exceeds
\* MAX_RETRY_DELAY; there is one sleep between two passes and none after the last.
C13_RateLimitBackoffIsExponential ==
    /\ \A a \in 0..(Len(responses) - 1) :
          Is429(responses[a + 1]) =>
             /\ a < MAX_RETRIES =>
                   IF Len(slept) > a
                   THEN slept[a + 1] = Min(BASE_RETRY_DELAY * (2 ^ a), MAX_RETRY_DELAY)
                   ELSE pc = "backoff" /\ attempt = a
             /\ a = MAX_RETRIES => pc = "call_raised" /\ Len(slept) = MAX_RETRIES
    /\ \A k \in 1..Len(slept) : slept[k] <= MAX_RETRY_DELAY
    /\ Len(slept) <= MAX_RETRIES
    /\ pc = "backoff" => Len(slept) = Len(responses) - 1
    /\ pc = "attempt" => Len(slept) = Len(responses)
    /\ CallEnded => Len(slept) = Len(responses) - 1

\* C13 witness: a call that ended after sleeping 1, 2 and 4 seconds.
C13_Witness ==
    /\ CallEnded
    /\ slept = <<1, 2, 4>>

\* C14: a transport failure on a pass that is not the last allowed one is followed
\* by a sleep of BASE_RETRY_DELAY; on the last allowed pass it ends the call with
\* APIError("Request failed: ..."); the call never raises the transport exception.
C14_TransportFailureRetriedThenAPIError ==
    /\ \A a \in 0..(Len(responses) - 1) :
          IsTransportFailure(responses[a + 1]) =>
             /\ a < MAX_RETRIES =>
                   IF Len(slept) > a
                   THEN slept[a + 1] = BASE_RETRY_DELAY
                   ELSE pc = "backoff" /\ attempt = a
             /\ a = MAX_RETRIES =>
                   /\ pc = "call_raised"
                   /\ search_exc.type = "APIError"
                   /\ Take(search_exc.msg, 1) = <<"Request failed">>
    /\ Len(responses) <= MAX_RETRIES + 1
    /\ search_exc.type \notin {"ConnectionError", "Timeout", "HTTPError",
                               "RequestException"}

\* C14 witness: four transport failures, a timeout and a connection error among
\* them, with three sleeps of BASE_RETRY_DELAY, and the call has raised.
C14_Witness ==
    /\ pc = "call_raised"
    /\ Len(responses) = 4
    /\ \A k \in 1..4 : IsTransportFailure(responses[k])
    /\ \E k \in 1..4 : responses[k].kind = "timeout"
    /\ \E k \in 1..4 : responses[k].kind = "exc"
    /\ slept = <<1, 1, 1>>

\* C19: an HTTP 200 answer whose top-level status code is not 20000 is the last
\* transport attempt of the call: the call has raised APIError (the generic
\* class), holds no result, and no sleep followed.
C19_BadTopStatusIsFatalForTheCall ==
    \A k \in 1..Len(responses) :
       HasBadTopStatus(responses[k]) =>
          /\ k = Len(responses)
          /\ pc = "call_raised"
          /\ search_exc.type = "APIError"
          /\ Take(search_exc.msg, 1) = <<"API error">>
          /\ results = <<>>
          /\ Len(slept) = k - 1

\* C19 witness: after one retried failure, an answer with top-level status 40200
\* that carries an organic item.
C19_Witness ==
    /\ pc = "call_raised"
    /\ Len(responses) = 2
    /\ responses[2].kind = "http" /\ responses[2].status = 200
    /\ responses[2].data = PayloadBadStatus

RECURSIVE Concat(_)
Concat(seqs) == IF seqs = <<>> THEN <<>> ELSE Head(seqs) \o Concat(Tail(seqs))

\* the items of a task, over all its result pages
ItemsOfTask(t) ==
    LET res == IF "result" \in DOMAIN t THEN t.result ELSE <<>>
    IN Concat([j \in 1..Len(res) |->
                  IF "items" \in DOMAIN res[j] THEN res[j].items ELSE <<>>])

\* the organic items of the tasks with status 20000, in response order, each as
\* {url, title, position, snippet}
OrganicOfSucceededTasks(data) ==
    LET Succeeded(t) == "status_code" \in DOMAIN t /\ t.status_code = 20000
        IsOrganic(it) == "type" \in DOMAIN it /\ it.type = "organic"
        ok == SelectSeq(data.tasks, Succeeded)
        kept == SelectSeq(Concat([k \in 1..Len(ok) |-> ItemsOfTask(ok[k])]), IsOrganic)
    IN [k \in 1..Len(kept) |->
          [url |-> IF "url" \in DOMAIN kept[k] THEN kept[k].url ELSE <<>>,
           title |-> IF "title" \in DOMAIN kept[k] THEN kept[k].title ELSE <<>>,
           position |-> IF "rank_absolute" \in DOMAIN kept[k]
                        THEN kept[k].rank_absolute ELSE 0,
           snippet |-> IF "description" \in DOMAIN kept[k]
                       THEN kept[k].description ELSE <<>>]]

TopOkPayloads == {P \in {PayloadEmpty, PayloadFew, PayloadMany, PayloadTasks} :
                     P.status_code = 20000}
ParsedAsClaimed == [P \in TopOkPayloads |-> OrganicOfSucceededTasks(P)]

\* C20: an HTTP 200 answer with top-level status 20000 ends the call with a return,
\* whatever the status of its tasks, and the returned list is the organic items of
\* the succeeded tasks, in response order, as {url, title, position, snippet}.
C20_FailedTaskIsSkippedOrganicItemsKept ==
    \A k \in 1..Len(responses) :
       (/\ responses[k].kind = "http"
        /\ responses[k].status = 200
        /\ responses[k].data \in TopOkPayloads) =>
          /\ k = Len(responses)
          /\ pc = "call_returned"
          /\ search_exc = NoExc
          /\ results = ParsedAsClaimed[responses[k].data]

\* C20 witness: the answer with a failed task between two succeeded ones; four
\* items are returned, the third without rank.
C20_Witness ==
    /\ pc = "call_returned"
    /\ responses[Len(responses)].data = PayloadTasks
    /\ Len(results) = 4
    /\ results[1].url = UrlB
    /\ results[3].position = 0

(***************************************************************************)
(* The process: callers in threads of their own calling search_site        *)
(* through the decorators, and the clock.  What the admitted function does *)
(* (retry_with_backoff and the request) is RetrySpec; here an admitted     *)
(* call runs and ends at once.                                             *)
(***************************************************************************)
\* search_site calls started in one behaviour
MaxCalls == 32
\* steps of the clock in one behaviour, besides sleeps that run out
MaxTicks == 1

\* by how much the clock moves between two events
TickSteps == {1, LIMIT_PERIOD - 1}

\* what a run and an observed call hold, which the limiter leaves alone
callvars == <<pc, results, attempt, last_exception, slept, search_exc, responses>>

LimiterInit ==
    /\ source_url = SrcPage
    /\ pc = "process"
    /\ page_content = NullPage
    /\ normalized_source = <<>>
    /\ anchor_suggestions = <<>>
    /\ i = 0
    /\ suggestion = NoSuggestion
    /\ results = <<>>
    /\ r_idx = 0
    /\ urls_added = 0
    /\ suggestions = <<>>
    /\ errors = <<>>
    /\ raised = NoExc
    /\ attempt = 0
    /\ last_exception = NoExc
    /\ slept = <<>>
    /\ search_exc = NoExc
    /\ calls = <<>>
    /\ outcomes = <<>>
    /\ page_fetch = "none"
    /\ llm_answer = NoAnswer
    /\ status_log = <<>>
    /\ progress_log = <<>>
    /\ eventful = 0
    /\ responses = <<>>
    /\ LimiterStart
    /\ run = NoRuns
    /\ OtherStart

\* the log of admissions with one more admission, of caller c at time t
Admitted(log, t, c) ==
    IF log # <<>> /\ log[Len(log)].at = t
    THEN [log EXCEPT ![Len(log)] = [at |-> t, n |-> @.n + 1, by |-> @.by \cup {c}]]
    ELSE Append(log, [at |-> t, n |-> 1, by |-> {c}])

\* the admissions of the log that are less than LIMIT_PERIOD seconds old at time t
Recent(log, t) ==
    LET Young(e) == e.at > t - LIMIT_PERIOD
    IN SelectSeq(log, Young)

\* caller c goes through sleep_and_retry's and the limiter's wrappers: the call is
\* counted and let through (and runs), or the caller sleeps until the window ends
Enter(c) ==
    \E l \in {LimiterOf(c)} :
       \E e \in {LimiterEnter(limiter[l], now)} :
          /\ limiter' = [limiter EXCEPT ![l] = e.lim]
          /\ IF e.admit
             THEN /\ cst' = [cst EXCEPT ![c] = "done"]
                  /\ admissions' = Admitted(admissions, now, c)
                  /\ window_admitted' =
                        [window_admitted EXCEPT ![l] = (IF e.reset THEN 0 ELSE @) + 1]
                  /\ UNCHANGED wake
             ELSE IF RaiseOnLimit
             THEN /\ cst' = [cst EXCEPT ![c] = "sleeping"]
                  /\ wake' = [wake EXCEPT ![c] = now + e.remaining]
                  /\ UNCHANGED <<admissions, window_admitted>>
             ELSE /\ cst' = [cst EXCEPT ![c] = "dropped"]
                  /\ UNCHANGED <<admissions, window_admitted, wake>>

\* a caller starts a search_site call
CallSearch ==
    /\ issued < MaxCalls
    /\ \E c \in Callers :
          /\ cst[c] \in {"idle", "done"}
          /\ Enter(c)
    /\ issued' = issued + 1
    /\ UNCHANGED <<now, ticks, runvars, callvars, run, ovars>>

\* time.sleep(exception.period_remaining) has returned in caller c: the next pass
\* of sleep_and_retry's `while True`
RetryOf(c) ==
    /\ cst[c] = "sleeping"
    /\ now >= wake[c]
    /\ Enter(c)
    /\ UNCHANGED <<now, ticks, issued, runvars, callvars, run, ovars>>

RetryAfterSleep == \E c \in Callers : RetryOf(c)

\* the clock moves while no sleep runs out before
Tick ==
    /\ ticks < MaxTicks
    /\ \E d \in TickSteps :
          /\ \A c \in Callers : cst[c] = "sleeping" /\ wake[c] > now => now + d <= wake[c]
          /\ now' = now + d
          /\ admissions' = Recent(admissions, now + d)
    /\ ticks' = ticks + 1
    /\ UNCHANGED <<limiter, window_admitted, cst, wake, issued, runvars, callvars, run, ovars>>

\* the clock reaches the end of the earliest running sleep
SleepRunsOut ==
    /\ \E c \in Callers :
          /\ cst[c] = "sleeping"
          /\ wake[c] > now
          /\ \A o \in Callers : cst[o] = "sleeping" /\ wake[o] > now => wake[c] <= wake[o]
          /\ now' = wake[c]
          /\ admissions' = Recent(admissions, wake[c])
    /\ UNCHANGED <<limiter, window_admitted, cst, wake, issued, ticks, runvars, callvars, run, ovars>>

LimiterNext ==
    \/ CallSearch
    \/ RetryAfterSleep
    \/ Tick
    \/ SleepRunsOut

LimiterSpec == LimiterInit /\ [][LimiterNext]_vars

\* the clock does not stop while a thread sleeps, and a thread whose sleep has
\* ended runs again
LimiterFairSpec ==
    /\ LimiterInit
    /\ [][LimiterNext]_vars
    /\ WF_vars(SleepRunsOut)
    /\ \A c \in Callers : WF_vars(RetryOf(c))

(***************************************************************************)
(* Properties of the limiter.                                              *)
(***************************************************************************)
RECURSIVE SumN(_)
SumN(log) == IF log = <<>> THEN 0 ELSE Head(log).n + SumN(Tail(log))

RECURSIVE SumOf(_, _)
SumOf(f, S) ==
    IF S = {} THEN 0
    ELSE LET x == CHOOSE x \in S : TRUE IN f[x] + SumOf(f, S \ {x})

\* C15: in the LIMIT_PERIOD (60) seconds that end now, at most
\* RATE_LIMIT_PER_MINUTE (30) search_site calls were let through, whoever made
\* them.
C15_AtMostLimitPerTrailingWindow ==
    SumN(Recent(admissions, now)) <= RATE_LIMIT_PER_MINUTE

C17_OneLimiterCountsAllCallers ==
    /\ SumOf(window_admitted, DOMAIN window_admitted) <= LIMIT_CALLS
    /\ \A l \in DOMAIN limiter : limiter[l].num_calls >= window_admitted[l]
    /\ \A k \in 1..Len(admissions) : admissions[k].n <= LIMIT_CALLS

\* C17 witness: the window is full with calls of both callers, made at the same
\* time, and a caller sleeps.
C17_Witness ==
    /\ SumOf(window_admitted, DOMAIN window_admitted) = LIMIT_CALLS
    /\ \E k \in 1..Len(admissions) : admissions[k].by = Callers
    /\ \E c \in Callers : cst[c] = "sleeping"

(***************************************************************************)
(* Concurrent runs: each caller thread runs find_opportunities on a client *)
(* of its own, as the web entry point does per request.  Each run has its  *)
(* call frame (run[r]); its search_site calls go through the limiter.  The *)
(* answers to the searches are those that end a call on its first attempt  *)
(* (the attempts of one call are RetrySpec).                               *)
(***************************************************************************)
\* the longest JSON array the language model answers with in a concurrent run
MaxConcAnchors == 2

ConcSources == {SrcPage, UrlA, SrcNoDot}
ConcFetches == {"ok", "timeout"}
ConcAnswers ==
    {[kind |-> "no_json", items |-> <<>>]}
    \cup {[kind |-> "json", items |-> [k \in 1..n |-> PlainItem(k)]]
            : n \in 0..MaxConcAnchors}
ConcResponses ==
    {[kind |-> "http", status |-> 200, data |-> P]
        : P \in {PayloadFew, PayloadMany, PayloadBadStatus}}
    \cup {[kind |-> "http", status |-> 401, data |-> PayloadEmpty]}

\* the frame that holds the lists `errors` and `suggestions` a run appends to and
\* returns: its own (they are locals, created by each call)
ListsOf_Shared(r) == "run1"
ListsOf(r) == r

\* the inner loop of find_opportunities over the results of one search: the
\* target URLs collected, `acc` being those collected so far
RECURSIVE TargetsOf(_, _, _)
TargetsOf(results_, norm_source, acc) ==
    CHOOSE t \in
      { IF rs = <<>> THEN a
        ELSE IF IsSelfLink(Head(rs).url, norm_source)
        THEN TargetsOf(Tail(rs), norm_source, a)
        ELSE IF BudgetFilled(Len(a) + 1)
        THEN Append(a, [url |-> Head(rs).url, title |-> Head(rs).title,
                        position |-> Head(rs).position])
        ELSE TargetsOf(Tail(rs), norm_source,
                       Append(a, [url |-> Head(rs).url, title |-> Head(rs).title,
                                  position |-> Head(rs).position]))
        : rs \in {results_}, a \in {acc} } : TRUE

ConcInit ==
    /\ source_url = SrcPage
    /\ pc = "process"
    /\ page_content = NullPage
    /\ normalized_source = <<>>
    /\ anchor_suggestions = <<>>
    /\ i = 0
    /\ suggestion = NoSuggestion
    /\ results = <<>>
    /\ r_idx = 0
    /\ urls_added = 0
    /\ suggestions = <<>>
    /\ errors = <<>>
    /\ raised = NoExc
    /\ attempt = 0
    /\ last_exception = NoExc
    /\ slept = <<>>
    /\ search_exc = NoExc
    /\ calls = <<>>
    /\ outcomes = <<>>
    /\ page_fetch = "none"
    /\ llm_answer = NoAnswer
    /\ status_log = <<>>
    /\ progress_log = <<>>
    /\ eventful = 0
    /\ responses = <<>>
    /\ LimiterStart
    /\ run \in [Callers -> {Frame(u) : u \in ConcSources}]
    /\ OtherStart

\* the lists of run r, replaced in the frame that holds them
WithLists(f, r, sugg, errs) ==
    [f EXCEPT ![ListsOf(r)].suggestions = sugg, ![ListsOf(r)].errors = errs]

\* run r: validate_url, errors = [], suggestions = [], scrape_page, normalize_url
RunStart(r) ==
    /\ run[r].pc = "start"
    /\ IF ~UrlAccepted(run[r].source_url)
       THEN run' = [run EXCEPT ![r].pc = "raised",
                               ![r].raised = Exc("ValueError", <<"Invalid URL">>)]
       ELSE \E fetched \in ConcFetches :
               \E p \in {scrape_page(run[r].source_url, fetched)} :
                  IF p.ok
                  THEN run' = WithLists(
                                [run EXCEPT ![r].pc = "extract",
                                            ![r].fetched = fetched,
                                            ![r].domain = p.page.domain,
                                            ![r].normalized_source =
                                               normalize_url(run[r].source_url)],
                                r, <<>>, <<>>)
                  ELSE run' = WithLists(
                                [run EXCEPT ![r].pc = "raised", ![r].raised = p.exc,
                                            ![r].fetched = fetched],
                                r, <<>>, <<>>)
    /\ UNCHANGED <<runvars, callvars, lvars, ovars>>

\* run r: `return suggestions, errors`
Return(f, r) ==
    [f EXCEPT ![r].pc = "returned",
              ![r].result = [returned |-> TRUE,
                             suggestions |-> f[ListsOf(r)].suggestions,
                             errors |-> f[ListsOf(r)].errors]]

\* run r: extract_anchor_texts and the two early returns
RunExtract(r) ==
    /\ run[r].pc = "extract"
    /\ \E raw \in ConcAnswers :
         \E e \in {extract_anchor_texts(raw, MAX_KEYWORDS)} :
            IF ~e.ok
            THEN run' = Return(WithLists([run EXCEPT ![r].raw = raw], r,
                                  run[ListsOf(r)].suggestions,
                                  Append(run[ListsOf(r)].errors,
                                         [prefix |-> "Gemini AI error", anchor |-> <<>>,
                                          detail |-> e.exc.msg])), r)
            ELSE IF NoAnchors(e.value)
            THEN run' = Return(WithLists([run EXCEPT ![r].raw = raw], r,
                                  run[ListsOf(r)].suggestions,
                                  Append(run[ListsOf(r)].errors,
                                         [prefix |->
                                            "Gemini could not extract any anchor text suggestions",
                                          anchor |-> <<>>, detail |-> <<>>])), r)
            ELSE run' = [run EXCEPT ![r].pc = "loop", ![r].raw = raw,
                                    ![r].anchor_suggestions = e.value]
    /\ UNCHANGED <<runvars, callvars, lvars, ovars>>

\* run r: one pass of the per-anchor loop (the search_site call through the
\* limiter, the inner loop or the except clause, suggestions.append), or the
\* return after the loop
RunSearch(r) ==
    /\ run[r].pc = "loop"
    /\ IF run[r].i < Len(ProcessedAnchors(run[r].anchor_suggestions))
       THEN \E resp \in ConcResponses :
              \E anchor \in {ProcessedAnchors(run[r].anchor_suggestions)[run[r].i + 1]} :
                \E s \in {search_site_once(resp)} :
                  /\ Enter(r)
                  /\ IF s.ok
                     THEN run' = WithLists(
                                   [run EXCEPT ![r].i = @ + 1, ![r].seen = Append(@, s)],
                                   r,
                                   Append(run[ListsOf(r)].suggestions,
                                          [anchor_text |-> anchor.text,
                                           relevance_score |-> anchor.relevance_score,
                                           reasoning |-> anchor.reasoning,
                                           target_urls |->
                                              TargetsOf(s.value, run[r].normalized_source,
                                                        <<>>)]),
                                   run[ListsOf(r)].errors)
                     ELSE IF CaughtAsAPIError(s.exc)
                     THEN run' = WithLists(
                                   [run EXCEPT ![r].i = @ + 1, ![r].seen = Append(@, s)],
                                   r,
                                   Append(run[ListsOf(r)].suggestions,
                                          [anchor_text |-> anchor.text,
                                           relevance_score |-> anchor.relevance_score,
                                           reasoning |-> anchor.reasoning,
                                           target_urls |-> <<>>]),
                                   Append(run[ListsOf(r)].errors,
                                          [prefix |-> "API error for",
                                           anchor |-> anchor.text,
                                           detail |-> s.exc.msg]))
                     ELSE run' = [run EXCEPT ![r].pc = "raised", ![r].raised = s.exc,
                                             ![r].seen = Append(@, s)]
       ELSE /\ run' = Return(run, r)
            /\ UNCHANGED lvars
    /\ UNCHANGED <<now, ticks, issued, runvars, callvars, ovars>>

RunStep == \E r \in Callers : RunStart(r) \/ RunExtract(r) \/ RunSearch(r)

ConcNext == RunStep

ConcSpec == ConcInit /\ [][ConcNext]_vars

(***************************************************************************)
(* Properties of concurrent runs.                                          *)
(***************************************************************************)
\* what one run returns for the answers it received itself, computed apart from
\* the run: the pages of a search that are not the source page, the first
\* MAX_TARGET_URLS_PER_KEYWORD of them
OwnTargets(found, source) ==
    LET NotSource(x) == Normalized[x.url] # Normalized[source]
        kept == Take(SelectSeq(found, NotSource), MAX_TARGET_URLS_PER_KEYWORD)
    IN [k \in 1..Len(kept) |->
          [url |-> kept[k].url, title |-> kept[k].title, position |-> kept[k].position]]

RECURSIVE OwnSearchErrors(_, _)
OwnSearchErrors(anchors, seen) ==
    IF seen = <<>> THEN <<>>
    ELSE (IF Head(seen).ok THEN <<>>
          ELSE <<[prefix |-> "API error for", anchor |-> Head(anchors).text,
                  detail |-> Head(seen).exc.msg]>>)
         \o OwnSearchErrors(Tail(anchors), Tail(seen))

OwnResult(source, raw, seen) ==
    LET e == extract_anchor_texts(raw, MAX_KEYWORDS)
        anchors == Take(e.value, MAX_KEYWORDS)
    IN IF ~e.ok
       THEN [returned |-> TRUE, suggestions |-> <<>>,
             errors |-> <<[prefix |-> "Gemini AI error", anchor |-> <<>>,
                           detail |-> e.exc.msg]>>]
       ELSE IF e.value = <<>>
       THEN [returned |-> TRUE, suggestions |-> <<>>,
             errors |-> <<[prefix |->
                             "Gemini could not extract any anchor text suggestions",
                           anchor |-> <<>>, detail |-> <<>>]>>]
       ELSE [returned |-> TRUE,
             suggestions |->
                [k \in 1..Len(seen) |->
                   [anchor_text |-> anchors[k].text,
                    relevance_score |-> anchors[k].relevance_score,
                    reasoning |-> anchors[k].reasoning,
                    target_urls |-> IF seen[k].ok
                                    THEN OwnTargets(seen[k].value, source)
                                    ELSE <<>>]],
             errors |-> OwnSearchErrors(anchors, seen)]

\* C18: of several runs executing concurrently, the suggestions and errors each
\* one returns are those its own source URL and the answers to its own fetch,
\* extraction and searches determine, whatever the other runs did in between;
\* a run that raised returns nothing; the limiter is the one thing they share:
\* it has counted the searches of all of them.
C18_RunResultDependsOnOwnAnswersOnly ==
    /\ \A r \in Callers :
          /\ run[r].result.returned
                => /\ run[r].pc = "returned"
                   /\ run[r].fetched = "ok"
                   /\ run[r].result = OwnResult(run[r].source_url, run[r].raw, run[r].seen)
          /\ run[r].pc = "raised" => ~run[r].result.returned
    /\ limiter[LimiterOf("run1")].num_calls = Len(run["run1"].seen) + Len(run["run2"].seen)

\* both runs have returned, interleaved, with different results, one of them
\* with a search that failed and a search that succeeded
C18_Witness ==
    /\ \A r \in Callers : run[r].result.returned
    /\ run["run1"].source_url # run["run2"].source_url
    /\ run["run1"].result # run["run2"].result
    /\ Len(run["run1"].result.suggestions) = 2
    /\ Len(run["run1"].result.errors) = 1
    /\ Len(run["run2"].result.suggestions) = 1
    /\ run["run2"].result.suggestions[1].target_urls # <<>>

(***************************************************************************)
(* src/src/dataforseo_client.py: check_balance.  One session.get with no   *)
(* decorator and no try/except around it, raise_for_status, response.json. *)
(***************************************************************************)
\* check_balance calls observed on one client
MaxBalanceCalls == 3

\* what the GET can end with: account data, an HTTP error status, a failed
\* connection
BalanceResponses ==
    {[kind |-> "http", status |-> 200, data |-> P] : P \in {PayloadEmpty, PayloadBadStatus}}
    \cup {[kind |-> "http", status |-> c, data |-> PayloadEmpty] : c \in {401, 500}}
    \cup {[kind |-> k, status |-> 0, data |-> PayloadEmpty] : k \in {"exc", "timeout"}}

check_balance(resp) ==
    IF resp.kind = "exc"
    THEN [ok |-> FALSE, exc |-> Exc("ConnectionError", <<"connection failed">>),
          value |-> <<>>]
    ELSE IF resp.kind = "timeout"
    THEN [ok |-> FALSE, exc |-> Exc("Timeout", <<"timed out">>), value |-> <<>>]
    ELSE IF resp.status >= 400
    THEN [ok |-> FALSE, exc |-> Exc("HTTPError", <<"server error">>), value |-> <<>>]
    ELSE [ok |-> TRUE, exc |-> NoExc, value |-> resp.data]

BalanceInit ==
    /\ source_url = SrcPage
    /\ pc = "balance"
    /\ page_content = NullPage
    /\ normalized_source = <<>>
    /\ anchor_suggestions = <<>>
    /\ i = 0
    /\ suggestion = NoSuggestion
    /\ results = <<>>
    /\ r_idx = 0
    /\ urls_added = 0
    /\ suggestions = <<>>
    /\ errors = <<>>
    /\ raised = NoExc
    /\ attempt = 0
    /\ last_exception = NoExc
    /\ slept = <<>>
    /\ search_exc = NoExc
    /\ calls = <<>>
    /\ outcomes = <<>>
    /\ page_fetch = "none"
    /\ llm_answer = NoAnswer
    /\ status_log = <<>>
    /\ progress_log = <<>>
    /\ eventful = 0
    /\ responses = <<>>
    /\ LimiterStart
    /\ run = NoRuns
    /\ OtherStart

\* one call of check_balance: the GET is answered once and the call ends
CheckBalance ==
    /\ pc = "balance"
    /\ Len(balance_log) < MaxBalanceCalls
    /\ \E resp \in BalanceResponses :
          balance_log' = Append(balance_log, [resp |-> resp, out |-> check_balance(resp)])
    /\ UNCHANGED <<runvars, callvars, lvars, run, util, creds, given, gate, cli>>

BalanceNext == CheckBalance

BalanceSpec == BalanceInit /\ [][BalanceNext]_vars

\* C21: a check_balance call is answered by one GET; it returns the account
\* data as received when the GET succeeds; it ends with an exception when the
\* GET fails, and when the connection failed that exception is the generic
\* APIError.
C21_CheckBalanceRawInfoOrAPIError ==
    \A k \in 1..Len(balance_log) :
       LET c == balance_log[k] IN
       /\ c.out.ok <=> (c.resp.kind = "http" /\ c.resp.status < 400)
       /\ c.out.ok => c.out.value = c.resp.data
       /\ c.resp.kind \in {"exc", "timeout"} => c.out.exc.type = "APIError"

(***************************************************************************)
(* src/src/utils.py called on its own: normalize_url, extract_domain and   *)
(* validate_url applied to URLs put together from a scheme, leading        *)
(* "www." labels, a host, a path, a query string and a fragment.           *)
(***************************************************************************)
\* the most "www." labels in front of a host
MaxWww == 2

\* <<>>: the URL is written without "scheme://"
UrlSchemes == {<<"https">>, <<"http">>, <<"HTTP">>, <<"ftp">>, <<>>}
UrlHosts ==
    { <<"d", ".", "com">>, <<"Example", ".", "COM">>, <<"blog", ".", "example", ".", "com">>,
      <<"example", ".", "co", ".", "uk">>,
      <<"sub", ".", "deep", ".", "example", ".", "co", ".", "uk">>,
      <<"localhost">>, <<>> }
UrlPaths == { <<>>, <<"/">>, <<"/", "/">>, <<"/", "Page", "/">>, <<"/", "p">> }
UrlQueries == { <<>>, <<"q">> }
UrlFragments == { <<>>, <<"section">> }

UrlParts ==
    [scheme : UrlSchemes, www : 0..MaxWww, host : UrlHosts, path : UrlPaths,
     query : UrlQueries, fragment : UrlFragments]

RECURSIVE Www(_)
Www(n) == IF n = 0 THEN <<>> ELSE <<"www", ".">> \o Www(n - 1)

\* the URL written out
UrlOf(parts) ==
    (IF parts.scheme = <<>> THEN <<>> ELSE parts.scheme \o <<":", "/", "/">>)
    \o Www(parts.www) \o parts.host \o parts.path
    \o (IF parts.query = <<>> THEN <<>> ELSE <<"?">> \o parts.query)
    \o (IF parts.fragment = <<>> THEN <<>> ELSE <<"#">> \o parts.fragment)

UtilInit ==
    /\ source_url = SrcPage
    /\ pc = "utils"
    /\ page_content = NullPage
    /\ normalized_source = <<>>
    /\ anchor_suggestions = <<>>
    /\ i = 0
    /\ suggestion = NoSuggestion
    /\ results = <<>>
    /\ r_idx = 0
    /\ urls_added = 0
    /\ suggestions = <<>>
    /\ errors = <<>>
    /\ raised = NoExc
    /\ attempt = 0
    /\ last_exception = NoExc
    /\ slept = <<>>
    /\ search_exc = NoExc
    /\ calls = <<>>
    /\ outcomes = <<>>
    /\ page_fetch = "none"
    /\ llm_answer = NoAnswer
    /\ status_log = <<>>
    /\ progress_log = <<>>
    /\ eventful = 0
    /\ responses = <<>>
    /\ LimiterStart
    /\ run = NoRuns
    /\ balance_log = <<>>
    /\ creds = AllCreds
    /\ given = NoGiven
    /\ gate = NoGate
    /\ cli = NoCli
    /\ util \in {[NoUtil EXCEPT !.parts = parts, !.url = UrlOf(parts)] : parts \in UrlParts}

\* normalize_url(url)
NormalizeUrl ==
    /\ pc = "utils"
    /\ util.op = "none"
    /\ util' = [util EXCEPT !.op = "normalize_url", !.out = normalize_url(util.url)]
    /\ UNCHANGED <<runvars, callvars, lvars, run, balance_log, creds, given, gate, cli>>

\* normalize_url(normalize_url(url))
NormalizeAgain ==
    /\ pc = "utils"
    /\ util.op = "normalize_url"
    /\ util' = [util EXCEPT !.op = "normalize_url twice",
                            !.again = normalize_url(util.out)]
    /\ UNCHANGED <<runvars, callvars, lvars, run, balance_log, creds, given, gate, cli>>

\* the ways two URLs are told apart
Differences == {"case", "scheme", "www", "slash", "fragment", "query"}

\* the URLs that differ from the one written from `parts` in one way only
Variants(parts, kind) ==
    CASE kind = "case" -> {Lower(UrlOf(parts))} \ {UrlOf(parts)}
      [] kind = "scheme" ->
           {UrlOf([parts EXCEPT !.scheme = sch])
              : sch \in {x \in {<<"http">>, <<"https">>} :
                           parts.scheme \in {<<"http">>, <<"https">>} \ {x}}}
      [] kind = "www" ->
           {UrlOf([parts EXCEPT !.www = n])
              : n \in {m \in {parts.www + 1} : m <= MaxWww /\ parts.scheme # <<>>}}
      [] kind = "slash" -> {UrlOf([parts EXCEPT !.path = @ \o <<"/">>])}
      [] kind = "fragment" ->
           {UrlOf([parts EXCEPT !.fragment = f]) : f \in UrlFragments \ {parts.fragment}}
      [] kind = "query" ->
           {UrlOf([parts EXCEPT !.query = q]) : q \in UrlQueries \ {parts.query}}

\* normalize_url on two URLs that differ in one way
NormalizeBoth ==
    /\ pc = "utils"
    /\ util.op = "none"
    /\ \E kind \in Differences :
          \E other \in Variants(util.parts, kind) :
             util' = [util EXCEPT !.op = "normalize_url both", !.differ = kind,
                                  !.other = other,
                                  !.out = normalize_url(util.url),
                                  !.other_out = normalize_url(other)]
    /\ UNCHANGED <<runvars, callvars, lvars, run, balance_log, creds, given, gate, cli>>

\* extract_domain(url)
ExtractDomain ==
    /\ pc = "utils"
    /\ util.op = "none"
    /\ util' = [util EXCEPT !.op = "extract_domain", !.out = extract_domain(util.url)]
    /\ UNCHANGED <<runvars, callvars, lvars, run, balance_log, creds, given, gate, cli>>

\* validate_url(url)
ValidateUrl ==
    /\ pc = "utils"
    /\ util.op = "none"
    /\ util' = [util EXCEPT !.op = "validate_url", !.valid = validate_url(util.url)]
    /\ UNCHANGED <<runvars, callvars, lvars, run, balance_log, creds, given, gate, cli>>

UtilNext ==
    \/ NormalizeUrl
    \/ NormalizeAgain
    \/ NormalizeBoth
    \/ ExtractDomain
    \/ ValidateUrl

UtilSpec == UtilInit /\ [][UtilNext]_vars

\* C22: normalizing a normalized URL gives that URL again.
C22_NormalizeUrlIsIdempotent ==
    util.op = "normalize_url twice" => util.again = util.out

\* what normalize_url is said to return for a URL written from its parts: the
\* scheme https, the host in lower case less one leading "www.", the path in
\* lower case less its trailing "/", the query string in lower case, no fragment
NormalizedAsClaimed(parts) ==
    LET host == Lower(Www(parts.www) \o parts.host)
        path == Lower(parts.path)
    IN <<"https", ":", "/", "/">>
       \o (IF StartsWith(host, <<"www", ".">>) THEN Drop(host, 2) ELSE host)
       \o SubSeq(path, 1, LastNot(path, "/"))
       \o (IF parts.query = <<>> THEN <<>> ELSE <<"?">> \o Lower(parts.query))

\* C23: normalize_url returns the URL in lower case with the scheme https, one
\* leading "www." of the host removed, the trailing "/" of the path removed, no
\* fragment and the query string kept; so two URLs that differ only in letter
\* case, in http against https, in a leading "www." of the host, in a trailing
\* "/" of the path or in the fragment normalize to the same string, and two URLs
\* that differ in the query string normalize differently.
C23_NormalizeUrlCanonicalForm ==
    /\ (util.op = "normalize_url" /\ util.parts.scheme # <<>>)
          => util.out = NormalizedAsClaimed(util.parts)
    /\ (util.op = "normalize_url both"
          /\ util.differ \in {"case", "scheme", "www", "slash", "fragment"})
          => util.out = util.other_out
    /\ (util.op = "normalize_url both" /\ util.differ = "query")
          => util.out # util.other_out

\* the host of a URL written from its parts, as extract_domain looks at it: in
\* lower case, less one leading "www."; a URL without "scheme://" has no host
HostOf(parts) ==
    LET host == IF parts.scheme = <<>> THEN <<>>
                ELSE Lower(Www(parts.www) \o parts.host)
    IN IF StartsWith(host, <<"www", ".">>) THEN Drop(host, 2) ELSE host

\* the labels of a host: its tokens other than the dots (a host that ends in a
\* dot ends in an empty label)
LabelsOf(host) ==
    LET named == SelectSeq(host, LAMBDA t : t # ".")
    IN IF host # <<>> /\ host[Len(host)] = "." THEN Append(named, "") ELSE named

\* the last n labels of a host, written with dots
RECURSIVE Dotted(_)
Dotted(labels) ==
    IF labels = <<>> THEN <<>>
    ELSE IF Len(labels) = 1 THEN (IF labels[1] = "" THEN <<>> ELSE <<labels[1]>>)
    ELSE <<labels[1], ".">> \o Dotted(Tail(labels))
LastLabels(host, n) ==
    LET labels == LabelsOf(host) IN Dotted(SubSeq(labels, Len(labels) - n + 1, Len(labels)))

\* C24: extract_domain returns, from the host in lower case less a leading
\* "www.": its last three labels when the last two are one of the listed
\* two-part suffixes, its last two labels otherwise, and the host itself when it
\* has fewer than three labels.
C24_ExtractDomainKeepsRootLabels ==
    util.op = "extract_domain" =>
       LET host == HostOf(util.parts)
           labels == LabelsOf(host)
           n == Len(labels)
       IN /\ n < 3 => util.out = host
          /\ (n >= 3 /\ LastLabels(host, 2) \in two_part_tlds)
                => util.out = LastLabels(host, 3)
          /\ (n >= 3 /\ LastLabels(host, 2) \notin two_part_tlds)
                => util.out = LastLabels(host, 2)

\* extract_domain("https://www.sub.deep.example.co.uk/p") is "example.co.uk"
C24_Witness ==
    /\ util.op = "extract_domain"
    /\ util.parts.host = <<"sub", ".", "deep", ".", "example", ".", "co", ".", "uk">>
    /\ util.parts.www = 1
    /\ util.parts.scheme = <<"https">>
    /\ util.out = <<"example", ".", "co", ".", "uk">>

\* C25: validate_url is true exactly when the scheme is http or https, the host
\* is not empty and the host has a dot.
C25_ValidateUrlSchemeHostDot ==
    util.op = "validate_url" =>
       LET host == IF util.parts.scheme = <<>> THEN <<>>
                   ELSE Www(util.parts.www) \o util.parts.host
       IN util.valid <=> /\ Lower(util.parts.scheme) \in {<<"http">>, <<"https">>}
                         /\ host # <<>>
                         /\ \E k \in 1..Len(host) : host[k] = "."

\* validate_url("https://localhost/p") is false: the host has no dot
C25_Witness ==
    /\ util.op = "validate_url"
    /\ util.parts.scheme = <<"https">>
    /\ util.parts.www = 0
    /\ util.parts.host = <<"localhost">>
    /\ util.parts.path = <<"/", "p">>
    /\ ~util.valid

(***************************************************************************)
(* A run from the construction of its InternalLinkFinder, under any        *)
(* configuration of the three credentials.  The finder builds its          *)
(* DataForSEOClient, whose __init__ checks login and password; the key of  *)
(* the extractor is checked by get_client(), inside extract_anchor_texts.  *)
(***************************************************************************)
Configurations == [login : BOOLEAN, password : BOOLEAN, api_key : BOOLEAN]

\* DataForSEOClient.__init__(): `if not login or not password: raise`
client_init(login, password) ==
    IF ~login \/ ~password
    THEN [ok |-> FALSE,
          exc |-> Exc("AuthenticationError", <<"DataForSEO credentials not configured">>)]
    ELSE [ok |-> TRUE, exc |-> NoExc]

CredInit ==
    /\ source_url \in SourceUrls
    /\ pc = "construct"
    /\ page_content = NullPage
    /\ normalized_source = <<>>
    /\ anchor_suggestions = <<>>
    /\ i = 0
    /\ suggestion = NoSuggestion
    /\ results = <<>>
    /\ r_idx = 0
    /\ urls_added = 0
    /\ suggestions = <<>>
    /\ errors = <<>>
    /\ raised = NoExc
    /\ attempt = 0
    /\ last_exception = NoExc
    /\ slept = <<>>
    /\ search_exc = NoExc
    /\ calls = <<>>
    /\ outcomes = <<>>
    /\ page_fetch = "none"
    /\ llm_answer = NoAnswer
    /\ status_log = <<>>
    /\ progress_log = <<>>
    /\ eventful = 0
    /\ responses = <<>>
    /\ LimiterStart
    /\ run = NoRuns
    /\ balance_log = <<>>
    /\ util = NoUtil
    /\ given = NoGiven
    /\ gate = NoGate
    /\ cli = NoCli
    /\ creds \in Configurations

\* finder = InternalLinkFinder(): self.client = DataForSEOClient()
Construct ==
    /\ pc = "construct"
    /\ UNCHANGED cvars
    /\ \E c \in {client_init(creds.login, creds.password)} :
          IF c.ok
          THEN pc' = "validate" /\ UNCHANGED raised
          ELSE pc' = "raised" /\ raised' = c.exc
    /\ UNCHANGED <<source_url, page_content, normalized_source, anchor_suggestions, i,
                   suggestion, results, r_idx, urls_added, suggestions, errors,
                   attempt, last_exception, slept, search_exc, calls, outcomes,
                   page_fetch, llm_answer, status_log, progress_log, eventful>>

CredNext ==
    \/ Construct
    \/ Next

CredSpec == CredInit /\ [][CredNext]_vars

\* a credential is missing from the configuration
MissingCredential == ~creds.login \/ ~creds.password \/ ~creds.api_key

\* the requests the run has sent: the fetch of the page, the request to the
\* language model, the searches
PageFetched == page_fetch # "none"
ExtractionRequested == llm_answer.kind \notin {"none", "no_client"}
SearchRequested == \E k \in 1..Len(calls) : calls[k].fn = "search_site"

\* C26: in a run started with a missing credential no request is ever sent:
\* no page is fetched, the language model is not asked and nothing is searched.
C26_MissingCredentialNoNetworkCall ==
    MissingCredential => ~PageFetched /\ ~ExtractionRequested /\ ~SearchRequested

(***************************************************************************)
(* Two runs of find_opportunities compared: the same source URL and the    *)
(* same answers of the collaborators (given), the first run with the hooks *)
(* on_status_update and on_keyword_progress, the second without.  A hook   *)
(* is a callable of the caller: it returns or it raises.  The hooks are    *)
(* called with no try around them, update_status at lines 83, 88, 105, 108 *)
(* and 155, on_keyword_progress at line 112.                               *)
(***************************************************************************)
HookBehaviours == {"absent", "returns", "raises"}

Givens ==
    [source : ConcSources, fetched : ConcFetches, raw : ConcAnswers,
     searches : [1..MaxConcAnchors -> ConcResponses],
     status_hook : HookBehaviours, progress_hook : HookBehaviours]

\* the hooks passed to run r
HooksOf(r) ==
    IF r = "run1" THEN [status |-> given.status_hook, progress |-> given.progress_hook]
    ELSE [status |-> "absent", progress |-> "absent"]

\* what a run does that its caller or a collaborator sees, in the order of the
\* code: a status message, a progress report, a call
StatusEvent(msg) ==
    [kind |-> "status", text |-> msg, current |-> 0, total |-> 0, arg |-> <<>>]
ProgressEvent(current, total, keyword) ==
    [kind |-> "progress", text |-> "", current |-> current, total |-> total,
     arg |-> keyword]
CallEvent(fn, arg) ==
    [kind |-> "call", text |-> fn, current |-> 0, total |-> 0, arg |-> arg]

\* `if hook: hook(...)` in frame f
Notify(f, hook, event) ==
    IF hook = "absent" THEN f
    ELSE IF hook = "returns" THEN [f EXCEPT !.events = Append(@, event)]
    ELSE [f EXCEPT !.events = Append(@, event), !.pc = "raised",
                   !.raised = Exc("HookError", <<"raised by the hook">>)]

\* a call of a collaborator in frame f
Calling(f, fn, arg) ==
    [f EXCEPT !.made = Append(@, fn), !.events = Append(@, CallEvent(fn, arg))]

\* on_keyword_progress(i + 1, len(anchor_suggestions), anchor.text)
ProgressArgs_ZeroBased(k, anchors) ==
    ProgressEvent(k, Len(anchors), anchors[k + 1].text)
ProgressArgs(k, anchors) ==
    ProgressEvent(k + 1, Len(anchors), anchors[k + 1].text)

\* `return suggestions, errors` in frame f
Returning(f) ==
    [f EXCEPT !.pc = "returned",
              !.result = [returned |-> TRUE, suggestions |-> f.suggestions,
                          errors |-> f.errors]]

\* lines 72-86: validate_url, update_status, scrape_page, normalize_url
HookedStart(f, hooks, fetched) ==
    IF ~UrlAccepted(f.source_url)
    THEN [f EXCEPT !.pc = "raised", !.raised = Exc("ValueError", <<"Invalid URL">>)]
    ELSE LET f1 == Notify(f, hooks.status, StatusEvent("Scraping page content..."))
             p == scrape_page(f.source_url, fetched)
             f2 == Calling(f1, "scrape_page", f.source_url)
         IN IF f1.pc = "raised" THEN f1
            ELSE IF p.ok
            THEN [f2 EXCEPT !.pc = "extract",
                            !.fetched = fetched, !.domain = p.page.domain,
                            !.normalized_source = normalize_url(f.source_url)]
            ELSE [f2 EXCEPT !.pc = "raised", !.fetched = fetched, !.raised = p.exc]

\* lines 88-108: update_status, extract_anchor_texts, the early returns, the two
\* update_status calls before the loop
HookedExtract(f, hooks, raw) ==
    LET f1 == Notify(f, hooks.status, StatusEvent("Analyzing content with Gemini AI..."))
        e == extract_anchor_texts(raw, MAX_KEYWORDS)
        f2 == [Calling(f1, "extract_anchor_texts", f.domain) EXCEPT !.raw = raw]
        f3 == Notify([f2 EXCEPT !.pc = "loop", !.anchor_suggestions = e.value],
                     hooks.status, StatusEvent("Found anchor text suggestions"))
    IN IF f1.pc = "raised" THEN f1
       ELSE IF ~e.ok
       THEN Returning([f2 EXCEPT !.errors = Append(@,
                          [prefix |-> "Gemini AI error", anchor |-> <<>>,
                           detail |-> e.exc.msg])])
       ELSE IF NoAnchors(e.value)
       THEN Returning([f2 EXCEPT !.errors = Append(@,
                          [prefix |-> "Gemini could not extract any anchor text suggestions",
                           anchor |-> <<>>, detail |-> <<>>])])
       ELSE IF f3.pc = "raised" THEN f3
       ELSE Notify(f3, hooks.status, StatusEvent("Searching for target pages..."))

\* the loop has an anchor to process and the progress hook lets it be searched
SearchIsMade(f, hooks) ==
    /\ f.i < Len(ProcessedAnchors(f.anchor_suggestions))
    /\ hooks.progress # "raises"

\* lines 110-153: one pass of the loop on the answer resp of the search
HookedSearch(f, hooks, resp) ==
    LET anchor == ProcessedAnchors(f.anchor_suggestions)[f.i + 1]
        f1 == Notify(f, hooks.progress, ProgressArgs(f.i, f.anchor_suggestions))
        s == search_site_once(resp)
        f2 == [Calling(f1, "search_site", SearchKeyword(anchor)) EXCEPT
                  !.seen = Append(@, s)]
        found == [anchor_text |-> anchor.text, relevance_score |-> anchor.relevance_score,
                  reasoning |-> anchor.reasoning,
                  target_urls |-> IF s.ok
                                  THEN TargetsOf(s.value, f.normalized_source, <<>>)
                                  ELSE <<>>]
    IN IF f1.pc = "raised" THEN f1
       ELSE IF s.ok
       THEN [f2 EXCEPT !.i = @ + 1, !.suggestions = Append(@, found)]
       ELSE IF CaughtAsAPIError(s.exc)
       THEN [f2 EXCEPT !.i = @ + 1, !.suggestions = Append(@, found),
                       !.errors = Append(@, [prefix |-> "API error for",
                                             anchor |-> anchor.text,
                                             detail |-> s.exc.msg])]
       ELSE [f2 EXCEPT !.pc = "raised", !.raised = s.exc]

\* lines 155-156: update_status("Analysis complete!") and the return
HookedReturn(f, hooks) ==
    LET f1 == Notify(f, hooks.status, StatusEvent("Analysis complete!"))
    IN IF f1.pc = "raised" THEN f1 ELSE Returning(f1)

HookInit ==
    /\ source_url = SrcPage
    /\ pc = "process"
    /\ page_content = NullPage
    /\ normalized_source = <<>>
    /\ anchor_suggestions = <<>>
    /\ i = 0
    /\ suggestion = NoSuggestion
    /\ results = <<>>
    /\ r_idx = 0
    /\ urls_added = 0
    /\ suggestions = <<>>
    /\ errors = <<>>
    /\ raised = NoExc
    /\ attempt = 0
    /\ last_exception = NoExc
    /\ slept = <<>>
    /\ search_exc = NoExc
    /\ calls = <<>>
    /\ outcomes = <<>>
    /\ page_fetch = "none"
    /\ llm_answer = NoAnswer
    /\ status_log = <<>>
    /\ progress_log = <<>>
    /\ eventful = 0
    /\ responses = <<>>
    /\ LimiterStart
    /\ balance_log = <<>>
    /\ util = NoUtil
    /\ creds = AllCreds
    /\ gate = NoGate
    /\ cli = NoCli
    /\ given \in Givens
    /\ run = [r \in Callers |-> Frame(given.source)]

HookedRunStart(r) ==
    /\ run[r].pc = "start"
    /\ run' = [run EXCEPT ![r] = HookedStart(run[r], HooksOf(r), given.fetched)]
    /\ UNCHANGED <<runvars, callvars, lvars, balance_log, util, creds, given, gate, cli>>

HookedRunExtract(r) ==
    /\ run[r].pc = "extract"
    /\ run' = [run EXCEPT ![r] = HookedExtract(run[r], HooksOf(r), given.raw)]
    /\ UNCHANGED <<runvars, callvars, lvars, balance_log, util, creds, given, gate, cli>>

HookedRunSearch(r) ==
    /\ run[r].pc = "loop"
    /\ run[r].i < Len(ProcessedAnchors(run[r].anchor_suggestions))
    /\ run' = [run EXCEPT ![r] = HookedSearch(run[r], HooksOf(r),
                                              given.searches[run[r].i + 1])]
    /\ IF SearchIsMade(run[r], HooksOf(r)) THEN Enter(r) ELSE UNCHANGED lvars
    /\ UNCHANGED <<now, ticks, issued, runvars, callvars, balance_log, util, creds,
                   given, gate, cli>>

HookedRunReturn(r) ==
    /\ run[r].pc = "loop"
    /\ ~(run[r].i < Len(ProcessedAnchors(run[r].anchor_suggestions)))
    /\ run' = [run EXCEPT ![r] = HookedReturn(run[r], HooksOf(r))]
    /\ UNCHANGED <<runvars, callvars, lvars, balance_log, util, creds, given, gate, cli>>

HookedStep ==
    \E r \in Callers :
       HookedRunStart(r) \/ HookedRunExtract(r) \/ HookedRunSearch(r) \/ HookedRunReturn(r)

HookNext == HookedStep

HookSpec == HookInit /\ [][HookNext]_vars

\* both compared runs have ended
BothEnded == \A r \in Callers : run[r].pc \in {"returned", "raised"}

\* C27: on the same source URL and the same answers, the run with hooks makes
\* the same fetch, extraction and search calls as the run without, and ends the
\* same way with the same suggestions and errors, whatever its hooks do.
C27_HooksDoNotChangeTheRun ==
    BothEnded =>
       /\ run["run1"].made = run["run2"].made
       /\ run["run1"].result = run["run2"].result
       /\ run["run1"].raised = run["run2"].raised

\* the status messages of find_opportunities in the order of the code: the four
\* stages and, between "analyzing" and "searching", the number of anchors found
StageMessages ==
    << "Scraping page content...", "Analyzing content with Gemini AI...",
       "Found anchor text suggestions", "Searching for target pages...",
       "Analysis complete!" >>

\* the events of one kind among the events of a run, in order
EventsOf(events, kind) == SelectSeq(events, LAMBDA e : e.kind = kind)

\* in `events`, every call of fn comes after the status message msg
AnnouncedBy(events, fn, msg) ==
    \A k \in 1..Len(events) :
       (events[k].kind = "call" /\ events[k].text = fn)
          => \E j \in 1..(k - 1) : events[j].kind = "status" /\ events[j].text = msg

\* the run with both hooks supplied, each of them returning
HooksReturn == given.status_hook = "returns" /\ given.progress_hook = "returns"

\* C28: the status hook receives the stage messages in the order scraping,
\* analyzing, searching, complete, each before the first call of the stage it
\* announces and "complete" after the last search; the progress hook is called
\* once per processed anchor, just before that anchor's search, with the
\* indices 1, 2, ..., the same total every time, index <= total, and the
\* anchor's text.
C28_HooksFireInStageOrder ==
    HooksReturn =>
       LET f == run["run1"]
           ev == f.events
           status == EventsOf(ev, "status")
           progress == EventsOf(ev, "progress")
           searches == SelectSeq(ev, LAMBDA e : e.kind = "call" /\ e.text = "search_site")
           anchors == ProcessedAnchors(f.anchor_suggestions)
       IN /\ [k \in 1..Len(status) |-> status[k].text] = Take(StageMessages, Len(status))
          /\ AnnouncedBy(ev, "scrape_page", StageMessages[1])
          /\ AnnouncedBy(ev, "extract_anchor_texts", StageMessages[2])
          /\ AnnouncedBy(ev, "search_site", StageMessages[4])
          /\ \A k \in 1..Len(ev) :
                (ev[k].kind = "status" /\ ev[k].text = StageMessages[5])
                   => k = Len(ev) /\ Len(searches) = Len(anchors)
          /\ \A k \in 1..Len(ev) :
                /\ ev[k].kind = "progress"
                      => /\ k < Len(ev)
                         /\ ev[k + 1].kind = "call" /\ ev[k + 1].text = "search_site"
                         /\ ev[k + 1].arg = ev[k].arg
                /\ (ev[k].kind = "call" /\ ev[k].text = "search_site")
                      => k > 1 /\ ev[k - 1].kind = "progress"
          /\ Len(progress) = f.i
          /\ \A m \in 1..Len(progress) :
                /\ progress[m].current = m
                /\ progress[m].total = Len(f.anchor_suggestions)
                /\ progress[m].current <= progress[m].total
                /\ progress[m].arg = anchors[m].text
          /\ (f.pc = "returned" /\ anchors # <<>>) => Len(progress) = Len(anchors)

\* a run with both hooks that searched for two anchors and returned
C28_Witness ==
    /\ HooksReturn
    /\ run["run1"].pc = "returned"
    /\ Len(EventsOf(run["run1"].events, "progress")) = 2
    /\ Len(EventsOf(run["run1"].events, "status")) = 5
    /\ run["run1"].events[Len(run["run1"].events)].text = "Analysis complete!"

(***************************************************************************)
(* One search_site call through all its decorators, observed in caller     *)
(* "run1" while caller "run2" makes calls of its own: sleep_and_retry and  *)
(* limits (the pass through the limiter) around retry_with_backoff (the    *)
(* attempts and the sleeps between them) around the request.               *)
(***************************************************************************)
\* where the wrapper of retry_with_backoff goes on after a sleep: its loop is
\* inside the limiter's wrapper, the next pass calls the undecorated function
AfterBackoff_ThroughLimiter == "enter"
AfterBackoff == "attempt"

ClientInit ==
    /\ source_url = SrcPage
    /\ pc = "enter"
    /\ page_content = NullPage
    /\ normalized_source = <<>>
    /\ anchor_suggestions = <<>>
    /\ i = 0
    /\ suggestion = NoSuggestion
    /\ results = <<>>
    /\ r_idx = 0
    /\ urls_added = 0
    /\ suggestions = <<>>
    /\ errors = <<>>
    /\ raised = NoExc
    /\ attempt = 0
    /\ last_exception = NoExc
    /\ slept = <<>>
    /\ search_exc = NoExc
    /\ calls = <<>>
    /\ outcomes = <<>>
    /\ page_fetch = "none"
    /\ llm_answer = NoAnswer
    /\ status_log = <<>>
    /\ progress_log = <<>>
    /\ eventful = 0
    /\ responses = <<>>
    /\ LimiterStart
    /\ run = NoRuns
    /\ OtherStart

\* the other caller starts a search_site call, or goes on after its sleep
OtherCall ==
    /\ issued < MaxCalls
    /\ \/ cst["run2"] \in {"idle", "done"}
       \/ cst["run2"] = "sleeping" /\ now >= wake["run2"]
    /\ Enter("run2")
    /\ issued' = issued + 1
    /\ UNCHANGED <<now, ticks, runvars, callvars, run, ovars>>

\* the observed call goes through the limiter: at first, and again after each
\* sleep of sleep_and_retry, until it is let through
ClientEnter ==
    /\ pc = "enter"
    /\ cst["run1"] = "sleeping" => now >= wake["run1"]
    /\ Enter("run1")
    /\ gate' = [passes |-> gate.passes + 1,
                admitted |-> gate.admitted + (IF cst'["run1"] = "done" THEN 1 ELSE 0)]
    /\ pc' = IF cst'["run1"] = "done" THEN "attempt" ELSE "enter"
    /\ UNCHANGED <<now, ticks, issued, runvars, results, attempt, last_exception, slept,
                   search_exc, responses, run, balance_log, util, creds, given, cli>>

\* time.sleep(delay) in an except clause of retry_with_backoff, then its next pass
ClientBackoff ==
    /\ pc = "backoff"
    /\ slept' = Append(slept, RetryDelay(last_exception, attempt))
    /\ attempt' = attempt + 1
    /\ pc' = AfterBackoff
    /\ UNCHANGED <<results, last_exception, search_exc, responses>>
    /\ UNCHANGED <<runvars, lvars, run, ovars>>

ClientNext ==
    \/ OtherCall
    \/ ClientEnter
    \/ RetryAttempt
    \/ ClientBackoff
    \/ SleepRunsOut

ClientSpec == ClientInit /\ [][ClientNext]_vars

\* C29: a search_site call is let through the limiter once, before its first
\* request; the attempts retry_with_backoff makes inside the call do not go
\* through the limiter again; the call makes at most MAX_RETRIES + 1 requests.
C29_LimiterOutsideRetry ==
    /\ gate.admitted <= 1
    /\ (responses # <<>> \/ pc \in {"attempt", "backoff", "call_returned", "call_raised"})
          => gate.admitted = 1
    /\ pc = "enter" => gate.admitted = 0 /\ responses = <<>>
    /\ Len(responses) <= MAX_RETRIES + 1

\* the observed call was turned away by the limiter once, let through on its
\* second pass, and made four requests
C29_Witness ==
    /\ pc = "call_raised"
    /\ gate = [passes |-> 2, admitted |-> 1]
    /\ cli = NoCli
    /\ Len(responses) = MAX_RETRIES + 1

(***************************************************************************)
(* A run of find_opportunities whose search_site calls go through the      *)
(* limiter, which other runs of the process may have used already: the run *)
(* of Spec with the pass through sleep_and_retry and limits in front of    *)
(* each call, and the clock for the sleep of a call that is turned away.   *)
(***************************************************************************)
\* calls the limiter has counted in its window when the run starts
Preloads == {0, LIMIT_CALLS}

LimitedRunInit ==
    /\ source_url \in SourceUrls
    /\ pc = "validate"
    /\ page_content = NullPage
    /\ normalized_source = <<>>
    /\ anchor_suggestions = <<>>
    /\ i = 0
    /\ suggestion = NoSuggestion
    /\ results = <<>>
    /\ r_idx = 0
    /\ urls_added = 0
    /\ suggestions = <<>>
    /\ errors = <<>>
    /\ raised = NoExc
    /\ attempt = 0
    /\ last_exception = NoExc
    /\ slept = <<>>
    /\ search_exc = NoExc
    /\ calls = <<>>
    /\ outcomes = <<>>
    /\ page_fetch = "none"
    /\ llm_answer = NoAnswer
    /\ status_log = <<>>
    /\ progress_log = <<>>
    /\ eventful = 0
    /\ responses = <<>>
    /\ now = 0
    /\ \E n \in Preloads :
          /\ limiter = [l \in LimiterIds |-> [last_reset |-> 0, num_calls |-> n]]
          /\ window_admitted = [l \in LimiterIds |-> n]
          /\ admissions = IF n = 0 THEN <<>> ELSE <<[at |-> 0, n |-> n, by |-> {"run2"}]>>
    /\ cst = [c \in Callers |-> "idle"]
    /\ wake = [c \in Callers |-> 0]
    /\ issued = 0
    /\ ticks = 0
    /\ run = NoRuns
    /\ OtherStart

\* time.sleep(period_remaining) of sleep_and_retry has returned: at time t for a
\* sleep that ends at time w
SleepIsOver_Never(t, w) == FALSE
SleepIsOver(t, w) == t >= w

\* self.client.search_site(...): the call goes through the limiter; let through,
\* it enters the wrapper of retry_with_backoff; turned away, the thread sleeps and
\* comes back here
LimitedSearchCall ==
    /\ pc = "call"
    /\ cst["run1"] = "sleeping" => SleepIsOver(now, wake["run1"])
    /\ Enter("run1")
    /\ IF cst'["run1"] = "done"
       THEN /\ calls' = Append(calls,
                   Call("search_site", page_content.domain,
                        SearchKeyword(ProcessedAnchors(anchor_suggestions)[i + 1])))
            /\ attempt' = 0
            /\ last_exception' = NoExc
            /\ slept' = <<>>
            /\ search_exc' = NoExc
            /\ results' = <<>>
            /\ pc' = "attempt"
       ELSE UNCHANGED <<calls, attempt, last_exception, slept, search_exc, results, pc>>
    /\ UNCHANGED <<source_url, page_content, normalized_source, anchor_suggestions, i,
                   suggestion, r_idx, urls_added, suggestions, errors, raised,
                   outcomes, page_fetch, llm_answer, status_log, progress_log, eventful>>
    /\ UNCHANGED <<now, ticks, issued, responses, run, ovars>>

LimitedRunNext ==
    \/ Validate
    \/ Scrape
    \/ Extract
    \/ LoopHead
    \/ LimitedSearchCall
    \/ SleepRunsOut
    \/ SearchAttempt
    \/ Backoff
    \/ HandleSearchError
    \/ FilterStep
    \/ AppendSuggestion

LimitedRunSpec == LimitedRunInit /\ [][LimitedRunNext]_vars

\* every request returns or raises, every sleep ends, and the thread of the run
\* goes on
LimitedRunFairSpec == LimitedRunSpec /\ WF_vars(LimitedRunNext)

\* the search_site calls the run has made
SearchCallsMade == Cardinality({k \in 1..Len(calls) : calls[k].fn = "search_site"})

\* the run has ended: it returned or it raised
RunEnded == pc \in {"returned", "raised"}

IsRetriedFailure(resp) ==
    \E r \in {search_site_once(resp)} : ~r.ok /\ Retryable(r.exc)

\* C31: whatever mix of rate-limit answers and transport failures a search_site
\* call meets, it makes at most MAX_RETRIES + 1 transport attempts in all; every
\* attempt before the last one was a retried failure followed by one sleep; a
\* successful attempt is the last one and the call returns its results; a call
\* whose attempts all failed with retried failures raises exactly after
\* MAX_RETRIES + 1 attempts, with RateLimitError when the last attempt was
\* rate-limited and with APIError("Request failed ...") otherwise.
C31_RetryBudgetIsSharedByBothKinds ==
    /\ Len(responses) <= MAX_RETRIES + 1
    /\ \A k \in 1..(Len(responses) - 1) : IsRetriedFailure(responses[k])
    /\ Len(slept) = attempt
    /\ responses # <<>> =>
          \E r \in {search_site_once(responses[Len(responses)])} :
             /\ r.ok => /\ pc = "call_returned"
                        /\ results = r.value
             /\ pc = "call_returned" => r.ok
             /\ IsRetriedFailure(responses[Len(responses)]) =>
                   /\ pc = "call_raised" <=> Len(responses) = MAX_RETRIES + 1
                   /\ pc # "call_raised" =>
                         \/ pc = "backoff" /\ attempt = Len(responses) - 1
                         \/ pc = "attempt" /\ attempt = Len(responses)
                   /\ pc = "call_raised" =>
                         IF Is429(responses[Len(responses)])
                         THEN search_exc = Exc("RateLimitError", <<"API rate limit exceeded">>)
                         ELSE /\ search_exc.type = "APIError"
                              /\ Take(search_exc.msg, 1) = <<"Request failed">>

\* C31 witness: a call that met rate-limit answers and transport failures, used
\* up the four attempts and raised APIError since the last one was a transport
\* failure.
C31_Witness ==
    /\ pc = "call_raised"
    /\ Len(responses) = MAX_RETRIES + 1
    /\ \E k \in 1..Len(responses) : Is429(responses[k])
    /\ \E k \in 1..Len(responses) : IsTransportFailure(responses[k])
    /\ IsTransportFailure(responses[Len(responses)])
    /\ search_exc.type = "APIError"

(***************************************************************************)
(* The command line: main() of main.py on one invocation.                  *)
(***************************************************************************)
\* def find_opportunities(self, source_url, on_status_update=None,
\*                        on_keyword_progress=None)
FinderParams == {"source_url", "on_status_update", "on_keyword_progress"}

\* finder.find_opportunities(source_url=url, max_keywords=max_keywords,
\*                           search_depth=depth, on_keyword_progress=on_progress)
CliKwargs == {"source_url", "max_keywords", "search_depth", "on_keyword_progress"}

\* a call with keyword arguments binds when the function has a parameter of each
\* name (it takes no **kwargs); otherwise the call raises TypeError before the
\* body runs
Binds(params, kwargs) == kwargs \subseteq params

\* the attributes print_table reads of each suggestion it shows
TableAttrs == {"anchor_text", "target_url", "position", "keyword_score"}

\* the attributes export_csv reads of each suggestion it writes
CsvAttrs == {"anchor_text", "target_url", "target_title", "position", "keyword_score"}

\* reading an attribute an object lacks raises AttributeError
HasAttrs(obj, attrs) == attrs \subseteq DOMAIN obj

\* what find_opportunities may hand back: no or one suggestion, no or one error
FinderResults ==
    [suggestions : {<<>>, <<[NoSuggestion EXCEPT !.anchor_text = <<"a">>]>>},
     errors : {<<>>, <<<<"e">>>>}]

CliInit ==
    /\ source_url = SrcPage
    /\ pc = "cli"
    /\ page_content = NullPage
    /\ normalized_source = <<>>
    /\ anchor_suggestions = <<>>
    /\ i = 0
    /\ suggestion = NoSuggestion
    /\ results = <<>>
    /\ r_idx = 0
    /\ urls_added = 0
    /\ suggestions = <<>>
    /\ errors = <<>>
    /\ raised = NoExc
    /\ attempt = 0
    /\ last_exception = NoExc
    /\ slept = <<>>
    /\ search_exc = NoExc
    /\ calls = <<>>
    /\ outcomes = <<>>
    /\ page_fetch = "none"
    /\ llm_answer = NoAnswer
    /\ status_log = <<>>
    /\ progress_log = <<>>
    /\ eventful = 0
    /\ responses = <<>>
    /\ LimiterStart
    /\ run = NoRuns
    /\ balance_log = <<>>
    /\ util = NoUtil
    /\ creds \in Configurations
    /\ given = NoGiven
    /\ gate = NoGate
    /\ \E u \in SourceUrls, n \in BOOLEAN, v \in BOOLEAN :
          cli = [NoCli EXCEPT !.pc = "validate_url", !.url = u, !.no_csv = n,
                              !.verbose = v]

\* what main() leaves alone
clivars == <<runvars, callvars, lvars, run, balance_log, util, creds, given, gate>>

\* sys.exit(status) after the messages printed
Exit(c, printed, status) ==
    [c EXCEPT !.pc = "exited", !.out = c.out \o printed, !.exit = status]

\* if not validate_url(url): print, sys.exit(1)
CliValidateUrl ==
    /\ cli.pc = "validate_url"
    /\ cli' = IF validate_url(cli.url)
              THEN [cli EXCEPT !.pc = "validate_config"]
              ELSE Exit(cli, <<"invalid_url">>, "1")
    /\ UNCHANGED clivars

\* Config.validate(): ValueError when a credential is missing; main prints it
\* and exits with 1
CliValidateConfig ==
    /\ cli.pc = "validate_config"
    /\ cli' = IF creds.login /\ creds.password /\ creds.api_key
              THEN [cli EXCEPT !.pc = "construct", !.out = cli.out \o <<"analyzing">>]
              ELSE Exit(cli, <<"configuration_error">>, "1")
    /\ UNCHANGED clivars

\* finder = InternalLinkFinder(verbose=verbose), inside the try
CliConstruct ==
    /\ cli.pc = "construct"
    /\ \E c \in {client_init(creds.login, creds.password)} :
          cli' = IF c.ok
                 THEN [cli EXCEPT !.pc = "find"]
                 ELSE Exit(cli, <<"authentication_error">>, "1")
    /\ UNCHANGED clivars

\* the rest of the try block after find_opportunities returned res:
\* print_table, print_errors, export_csv, sys.exit(1) without suggestions; an
\* exception on the way is caught by `except Exception` and ends with status 1
Report(c, res) ==
    IF \E k \in 1..Len(res.suggestions) : ~HasAttrs(res.suggestions[k], TableAttrs)
    THEN Exit(c, <<"summary", "unexpected_error">>, "1")
    ELSE IF /\ ~c.no_csv
            /\ \E k \in 1..Len(res.suggestions) : ~HasAttrs(res.suggestions[k], CsvAttrs)
    THEN Exit(c, <<"table", "errors", "unexpected_error">>, "1")
    ELSE [Exit(c, <<"table", "errors">>
                     \o (IF ~c.no_csv /\ res.suggestions # <<>>
                         THEN <<"exported">> ELSE <<>>),
               IF res.suggestions = <<>> THEN "1" ELSE "0")
            EXCEPT !.csv = ~c.no_csv /\ res.suggestions # <<>>]

\* suggestions, errors = finder.find_opportunities(...) and what follows it in
\* the try block, with the handlers of the block
CliFind ==
    /\ cli.pc = "find"
    /\ IF Binds(FinderParams, CliKwargs)
       THEN \E res \in FinderResults :
               cli' = Report([cli EXCEPT !.called = TRUE,
                                         !.suggestions = res.suggestions,
                                         !.errors = res.errors], res)
       ELSE cli' = Exit(cli, <<"unexpected_error">>, "1")
    /\ UNCHANGED clivars

CliNext ==
    \/ CliValidateUrl
    \/ CliValidateConfig
    \/ CliConstruct
    \/ CliFind

CliSpec == CliInit /\ [][CliNext]_vars

\* C32: an invocation with a URL that passes validate_url and with every
\* credential configured has, when it has exited, run find_opportunities,
\* printed the table and the errors, written the CSV exactly when there are
\* suggestions and --no-csv was not given, and exited with status 1 exactly
\* when there are no suggestions.
C32_CliRunsFinderPrintsExportsAndExits ==
    (cli.pc = "exited" /\ validate_url(cli.url) /\ creds = AllCreds) =>
       /\ cli.called
       /\ \E k \in 1..Len(cli.out) : cli.out[k] = "table"
       /\ \E k \in 1..Len(cli.out) : cli.out[k] = "errors"
       /\ cli.csv <=> (cli.suggestions # <<>> /\ ~cli.no_csv)
       /\ cli.exit = "1" <=> cli.suggestions = <<>>

====
